---- MODULE Spec2Model ----
(***************************************************************************)
(* A model of the twsmatrix containers: the owning vector and matrix, the  *)
(* non-owning vectorview and matrixview, and the std::shared_ptr<T[]> that *)
(* each of them keeps in _data.                                            *)
(*                                                                         *)
(* A program is a bounded set of named objects (handle slots).  The heap   *)
(* is a set of allocations (new T[k]) and of shared_ptr control blocks; a  *)
(* control block owns one raw pointer (an allocation and an element        *)
(* offset into it) and deletes it when its use count reaches zero.         *)
(*                                                                         *)
(* Elements are int: new T[k] leaves them with any value.  Storage that    *)
(* has been freed reads as Indet, which is no element value, and a write   *)
(* to it is lost.  A delete[] of anything but the start of a live          *)
(* allocation is undefined: the step that runs it is marked in ub; the     *)
(* program may stop there (the behaviour stutters) or go on with the heap  *)
(* as it was.                                                              *)
(***************************************************************************)
EXTENDS Integers, Sequences, FiniteSets, TLC

\* bounds of the model
MaxHandle == 2        \* named objects alive at the same time
MaxAlloc == 4         \* allocations tracked at the same time
MaxLen == 3           \* largest length of a vector
MaxDim == 2           \* largest number of rows, and of columns, of a matrix
MaxStride == 2        \* largest stride asked of subvector
MaxVal == 1           \* element values are 0..MaxVal

Handles == 1..MaxHandle
\* the slot of the parameter of a routine that is running
Param == MaxHandle + 1
Slots == 1..Param
Allocs == 1..MaxAlloc
\* every control block has an owner: at most one per object, and one for
\* the value a routine returns
Ctrls == 1..(Param + 1)
Val == 0..MaxVal

\* the value read from storage that is not allocated (indeterminate); it is
\* no element value
Indet == 0 - 1

VARIABLES
    handles,   \* slot -> object (its fields), or NoHandle
    ctrl,      \* control block -> [alloc, off, refs]
    heap,      \* allocation -> [state, cells]
    ub         \* the undefined delete[] that the last operation ran, if any

vars == <<handles, ctrl, heap, ub>>

NoHandle == [kind |-> "none", m |-> 0, n |-> 0, stride |-> 0, ldim |-> 0,
             offset |-> 0, data |-> 0]
NoCtrl == [alloc |-> 0, off |-> 0, refs |-> 0]
NoBlock == [state |-> "none", cells |-> <<>>]

\* the program state as one value, so that operations compose
Cur == [h |-> handles, c |-> ctrl, m |-> heap, ub |-> "none"]

Min(X) == CHOOSE x \in X : \A y \in X : x <= y
FreeSlots(S) == {h \in Handles : S.h[h].kind = "none"}
FreeCtrls(S) == {c \in Ctrls : S.c[c].refs = 0}
FreeAllocs(S) == {a \in Allocs : S.m[a].state = "none"}
NewSlot(S) == Min(FreeSlots(S))
NewCtrl(S) == Min(FreeCtrls(S))
NewAlloc(S) == Min(FreeAllocs(S))
CanNew(S) == FreeCtrls(S) # {} /\ FreeAllocs(S) # {}

IsOwner(hd) == hd.kind \in {"vector", "matrix"}
IsView(hd) == hd.kind \in {"vectorview", "matrixview"}
Is1D(hd) == hd.kind \in {"vector", "vectorview"}
Is2D(hd) == hd.kind \in {"matrix", "matrixview"}

----------------------------------------------------------------------------
(* std::shared_ptr<T[]>                                                    *)

\* shared_ptr<T[]>(new T[k]): a fresh allocation owned by a fresh control block
sp_new(S, cells) ==
    [S EXCEPT !.m[NewAlloc(S)] = [state |-> "live", cells |-> cells],
              !.c[NewCtrl(S)] = [alloc |-> NewAlloc(S), off |-> 0, refs |-> 1]]

\* shared_ptr<T[]>(p) for a raw pointer p = &_data[off]: a fresh control block
\* that owns p, unrelated to the control block _data itself uses
sp_from_raw(S, c, off) ==
    [S EXCEPT !.c[NewCtrl(S)] = [alloc |-> S.c[c].alloc,
                                 off |-> S.c[c].off + off, refs |-> 1]]

\* copy of a shared_ptr: one more owner of the same control block
sp_copy(S, c) == [S EXCEPT !.c[c].refs = @ + 1]

\* delete[] p, as the control block runs it when its last owner goes away.
\* Only the delete of the start of a live allocation is defined: it frees the
\* allocation, whoever else still points into it.
DeleteDefined(blk, off) == off = 0 /\ blk.state = "live"

DeleteArray(blk, off) ==
    IF DeleteDefined(blk, off)
    THEN [state |-> "freed", cells |-> [i \in 1..Len(blk.cells) |-> Indet]]
    ELSE blk

\* what an undefined delete[] was given: the start of an allocation that is
\* already freed, or a pointer into the middle of an allocation
Fault(blk, off) ==
    IF DeleteDefined(blk, off) THEN "none"
    ELSE IF off = 0 THEN "double_free" ELSE "invalid_free"

\* a freed allocation that no control block points into any more is forgotten
Reclaim(blk, referenced) ==
    IF blk.state = "freed" /\ ~referenced THEN NoBlock ELSE blk

\* destruction or reassignment of a shared_ptr: one owner fewer
sp_release(S, c) ==
    IF S.c[c].refs > 1
    THEN [S EXCEPT !.c[c].refs = @ - 1]
    ELSE LET a == S.c[c].alloc
             C2 == [S.c EXCEPT ![c] = NoCtrl]
             referenced == \E d \in Ctrls : C2[d].refs > 0 /\ C2[d].alloc = a
         IN [S EXCEPT !.c = C2,
                      !.m[a] = Reclaim(DeleteArray(S.m[a], S.c[c].off), referenced),
                      !.ub = IF Fault(S.m[a], S.c[c].off) = "none" THEN @
                             ELSE Fault(S.m[a], S.c[c].off)]

\* _data = rhs on a shared_ptr member: retain rhs, release the old value
sp_assign(S, old, new) == sp_release(sp_copy(S, new), old)

----------------------------------------------------------------------------
(* element access                                                          *)

\* an index map that takes the elements of a vectorview to be neighbours in
\* storage
Index_contiguous(hd, i, j) ==
    CASE hd.kind = "vector" -> i
      [] hd.kind = "vectorview" -> hd.offset + i
      [] hd.kind = "matrix" -> i + j * hd.m
      [] hd.kind = "matrixview" -> hd.offset + i + j * hd.ldim

\* the element of the buffer behind _data that index (i, j) of hd maps to
Index(hd, i, j) ==
    CASE hd.kind = "vector" -> i
      [] hd.kind = "vectorview" -> hd.offset + i * hd.stride
      [] hd.kind = "matrix" -> i + j * hd.m
      [] hd.kind = "matrixview" -> hd.offset + i + j * hd.ldim

\* _data.get()
DataPtr(S, hd) == <<S.c[hd.data].alloc, S.c[hd.data].off>>

\* the storage cell of hd(i, j): the allocation and the element in it
Cell(S, hd, i, j) == <<S.c[hd.data].alloc, S.c[hd.data].off + Index(hd, i, j)>>

InBlock(S, cell) ==
    /\ S.m[cell[1]].state = "live"
    /\ cell[2] >= 0 /\ cell[2] < Len(S.m[cell[1]].cells)

Load(S, cell) == IF InBlock(S, cell) THEN S.m[cell[1]].cells[cell[2] + 1] ELSE Indet

\* a write that also lands in the element after
Store_spilling(S, cell, x) ==
    IF InBlock(S, cell)
    THEN [S EXCEPT !.m[cell[1]].cells =
             [k \in DOMAIN @ |-> IF k \in {cell[2] + 1, cell[2] + 2}
                                 THEN x ELSE @[k]]]
    ELSE S

Store(S, cell, x) ==
    IF InBlock(S, cell) THEN [S EXCEPT !.m[cell[1]].cells[cell[2] + 1] = x] ELSE S

\* extents: a vector has Rows = size and one column
Rows(hd) == IF Is1D(hd) THEN hd.n ELSE hd.m
Cols(hd) == IF Is1D(hd) THEN 1 ELSE hd.n
Idx(hd) == (0..(Rows(hd) - 1)) \X (0..(Cols(hd) - 1))

Get(S, hd, i, j) == Load(S, Cell(S, hd, i, j))
Put(S, hd, i, j, x) == Store(S, Cell(S, hd, i, j), x)

----------------------------------------------------------------------------
(* objects                                                                 *)

VecH(n, c) == [kind |-> "vector", m |-> 0, n |-> n, stride |-> 0, ldim |-> 0,
               offset |-> 0, data |-> c]
ViewH(n, c, stride, offset) ==
    [kind |-> "vectorview", m |-> 0, n |-> n, stride |-> stride, ldim |-> 0,
     offset |-> offset, data |-> c]
MatH(m, n, c) == [kind |-> "matrix", m |-> m, n |-> n, stride |-> 0, ldim |-> 0,
                  offset |-> 0, data |-> c]
MViewH(m, n, c, ldim, offset) ==
    [kind |-> "matrixview", m |-> m, n |-> n, stride |-> 0, ldim |-> ldim,
     offset |-> offset, data |-> c]

\* std::unique_ptr<T[]> data(new T[k]) of a test: it owns the allocation alone,
\* and its destructor runs delete[] on it
UniqueH(k, c) == [kind |-> "unique", m |-> 0, n |-> k, stride |-> 0, ldim |-> 0,
                  offset |-> 0, data |-> c]

\* the order in which a loop visits the indices: for (i) for (j), and
\* for (j) for (i)
RowMajor(m, n) == [k \in 1..(m * n) |-> <<(k - 1) \div n, (k - 1) % n>>]
ColMajor(m, n) == [k \in 1..(m * n) |-> <<(k - 1) % m, (k - 1) \div m>>]

\* for each index of order, in order: dst(i, j) = src(i, j)
RECURSIVE CopyLoop(_, _, _, _)
CopyLoop(S, dst, src, order) ==
    IF order = <<>> THEN S
    ELSE CopyLoop(Put(S, dst, Head(order)[1], Head(order)[2],
                      Get(S, src, Head(order)[1], Head(order)[2])),
                  dst, src, Tail(order))

\* new T[k], not initialised
Fresh(k) == [i \in 1..k |-> Indet]

\* the object's destructor: its _data member is destroyed
Destruct(S, h) == [sp_release(S, S.h[h].data) EXCEPT !.h[h] = NoHandle]

----------------------------------------------------------------------------
(* vector<T>  (T = int: new T[n] is not initialised)                       *)

\* vector(int n)
vector_ctor(S, h, cells) ==
    [sp_new(S, cells) EXCEPT !.h[h] = VecH(Len(cells), NewCtrl(S))]

\* vector(int n, T value)
vector_fill(S, h, n, value) ==
    [sp_new(S, [i \in 1..n |-> value]) EXCEPT !.h[h] = VecH(n, NewCtrl(S))]

\* a copy constructor that shares the buffer, as the move constructor does
vector_copy_shallow(S, h, g) ==
    [sp_copy(S, S.h[g].data) EXCEPT !.h[h] = VecH(S.h[g].n, S.h[g].data)]

\* vector(const vector& v) and template vector(const V& v)
vector_copy(S, h, g) ==
    LET hd == VecH(S.h[g].n, NewCtrl(S))
        S1 == [sp_new(S, Fresh(hd.n)) EXCEPT !.h[h] = hd]
    IN CopyLoop(S1, hd, S.h[g], ColMajor(hd.n, 1))

\* vector(vector&& v)
vector_move(S, h, g) ==
    [sp_copy(S, S.h[g].data) EXCEPT !.h[h] = VecH(S.h[g].n, S.h[g].data)]

\* a copy assignment that takes over the buffer of v, as the move assignment
\* does
vector_assign_shallow(S, h, g) ==
    [sp_assign(S, S.h[h].data, S.h[g].data) EXCEPT !.h[h].data = S.h[g].data]

\* operator=(const vector& v) and template operator=(const V& v)
vector_assign(S, h, g) == CopyLoop(S, S.h[h], S.h[g], ColMajor(S.h[h].n, 1))

\* a move assignment that copies the elements, as the copy assignment does
vector_move_assign_copy(S, h, g) ==
    CopyLoop(S, S.h[h], S.h[g], ColMajor(S.h[h].n, 1))

\* operator=(vector&& v)
vector_move_assign(S, h, g) ==
    [sp_assign(S, S.h[h].data, S.h[g].data) EXCEPT !.h[h].data = S.h[g].data]

\* a subvector that starts at the vector's first element whatever start is
vector_subvector_from_first(S, h, g, start, end, stride) ==
    [sp_copy(S, S.h[g].data) EXCEPT
        !.h[h] = ViewH((end - start) \div stride, S.h[g].data, stride, 0)]

\* a subvector that takes end for its length
vector_subvector_length_end(S, h, g, start, end, stride) ==
    [sp_copy(S, S.h[g].data) EXCEPT
        !.h[h] = ViewH(end \div stride, S.h[g].data, stride, start)]

\* subvector(start, end, stride)
vector_subvector(S, h, g, start, end, stride) ==
    [sp_copy(S, S.h[g].data) EXCEPT
        !.h[h] = ViewH((end - start) \div stride, S.h[g].data, stride, start)]

----------------------------------------------------------------------------
(* vectorview<T>                                                           *)

\* vectorview(int n, std::shared_ptr<T[]> data, int stride, int offset), with
\* data a shared_ptr on control block c: the member is a copy of it
vectorview_ctor(S, h, n, c, stride, offset) ==
    [sp_copy(S, c) EXCEPT !.h[h] = ViewH(n, c, stride, offset)]

\* vectorview<T> v(n, std::shared_ptr<T[]>(new T[k]), stride, offset): the
\* temporary is destroyed at the end of the declaration
vectorview_over(S, h, cells, n, stride, offset) ==
    LET c == NewCtrl(S)
    IN sp_release(vectorview_ctor(sp_new(S, cells), h, n, c, stride, offset), c)

\* vectorview<T> v(n, data.get(), stride) for the unique_ptr data of object g:
\* the raw pointer becomes the shared_ptr of the parameter, a control block of
\* its own
vectorview_over_raw(S, h, g, n, stride) ==
    LET c == NewCtrl(S)
    IN sp_release(vectorview_ctor(sp_from_raw(S, S.h[g].data, 0), h, n, c,
                                  stride, 0), c)

\* vectorview(const vectorview& v)
vectorview_copy(S, h, g) ==
    [sp_copy(S, S.h[g].data) EXCEPT
        !.h[h] = ViewH(S.h[g].n, S.h[g].data, S.h[g].stride, S.h[g].offset)]

\* vectorview(vectorview&& v)
vectorview_move(S, h, g) ==
    [sp_copy(S, S.h[g].data) EXCEPT
        !.h[h] = ViewH(S.h[g].n, S.h[g].data, S.h[g].stride, S.h[g].offset)]

\* an assignment that stores the elements of v at the positions of this view
vectorview_assign_elementwise(S, h, g) ==
    CopyLoop(S, S.h[h], S.h[g], ColMajor(S.h[h].n, 1))

\* operator=(const vectorview& v)
vectorview_assign(S, h, g) ==
    [sp_assign(S, S.h[h].data, S.h[g].data) EXCEPT !.h[h].data = S.h[g].data]

\* operator=(vectorview&& v)
vectorview_move_assign(S, h, g) ==
    [sp_assign(S, S.h[h].data, S.h[g].data) EXCEPT !.h[h].data = S.h[g].data]

\* a subvector that counts start in elements of the buffer, not of the view
vectorview_subvector_unscaled(S, h, g, start, end, stride) ==
    [sp_copy(S, S.h[g].data) EXCEPT
        !.h[h] = ViewH((end - start) \div stride, S.h[g].data,
                       S.h[g].stride * stride, S.h[g].offset + start)]

\* subvector(start, end, stride)
vectorview_subvector(S, h, g, start, end, stride) ==
    [sp_copy(S, S.h[g].data) EXCEPT
        !.h[h] = ViewH((end - start) \div stride, S.h[g].data,
                                S.h[g].stride * stride,
                                S.h[g].offset + start * S.h[g].stride)]

\* the conversion vector -> vectorview that add_one_value<vectorview<T>>(v)
\* uses: a view of the whole vector on the vector's own buffer
vectorview_from_vector(S, h, g) ==
    [sp_copy(S, S.h[g].data) EXCEPT
        !.h[h] = ViewH(S.h[g].n, S.h[g].data, 1, 0)]

----------------------------------------------------------------------------
(* matrix<T>  (column-major: element (i, j) is _data[i + j * _m])          *)

\* a constructor that takes its first parameter for the number of columns
matrix_ctor_swapped(S, h, m, n, cells) ==
    [sp_new(S, cells) EXCEPT !.h[h] = MatH(n, m, NewCtrl(S))]

\* matrix(int m, int n)
matrix_ctor(S, h, m, n, cells) ==
    [sp_new(S, cells) EXCEPT !.h[h] = MatH(m, n, NewCtrl(S))]

\* a copy constructor that shares the buffer, as the move constructor does
matrix_copy_shallow(S, h, g) ==
    [sp_copy(S, S.h[g].data) EXCEPT
        !.h[h] = MatH(S.h[g].m, S.h[g].n, S.h[g].data)]

\* matrix(const matrix& m) and template matrix(const M& m)
matrix_copy(S, h, g) ==
    LET hd == MatH(S.h[g].m, S.h[g].n, NewCtrl(S))
        S1 == [sp_new(S, Fresh(hd.m * hd.n)) EXCEPT !.h[h] = hd]
    IN CopyLoop(S1, hd, S.h[g], ColMajor(hd.m, hd.n))

\* matrix(matrix&& m)
matrix_move(S, h, g) ==
    [sp_copy(S, S.h[g].data) EXCEPT
        !.h[h] = MatH(S.h[g].m, S.h[g].n, S.h[g].data)]

\* operator=(const matrix& m) and template operator=(const M& m)
matrix_assign(S, h, g) ==
    CopyLoop(S, S.h[h], S.h[g], RowMajor(S.h[h].m, S.h[h].n))

\* operator=(matrix&& m)
matrix_move_assign(S, h, g) ==
    [sp_assign(S, S.h[h].data, S.h[g].data) EXCEPT !.h[h].data = S.h[g].data]

\* submatrix(i1, i2, j1, j2)
matrix_submatrix(S, h, g, i1, i2, j1, j2) ==
    [sp_copy(S, S.h[g].data) EXCEPT
        !.h[h] = MViewH(i2 - i1, j2 - j1, S.h[g].data, S.h[g].m,
                                 i1 + j1 * S.h[g].m)]

\* a column that starts i elements, not i columns, into the buffer
matrix_column_unscaled(S, h, g, i) ==
    [sp_from_raw(S, S.h[g].data, i) EXCEPT
        !.h[h] = ViewH(S.h[g].m, NewCtrl(S), 1, 0)]

\* column(i): vectorview<T>(_m, &_data[i * _m], 1); the raw pointer becomes
\* the view's shared_ptr
matrix_column(S, h, g, i) ==
    [sp_from_raw(S, S.h[g].data, i * S.h[g].m) EXCEPT
        !.h[h] = ViewH(S.h[g].m, NewCtrl(S), 1, 0)]

\* a row whose elements are taken to be neighbours in storage
matrix_row_contiguous(S, h, g, i) ==
    [sp_from_raw(S, S.h[g].data, i) EXCEPT
        !.h[h] = ViewH(S.h[g].n, NewCtrl(S), 1, 0)]

\* row(i): vectorview<T>(_n, &_data[i], _m)
matrix_row(S, h, g, i) ==
    [sp_from_raw(S, S.h[g].data, i) EXCEPT
        !.h[h] = ViewH(S.h[g].n, NewCtrl(S), S.h[g].m, 0)]

----------------------------------------------------------------------------
(* matrixview<T>                                                           *)

\* matrixview(int m, int n, std::shared_ptr<T[]> data, int ldim, int offset)
matrixview_ctor(S, h, m, n, c, ldim, offset) ==
    [sp_copy(S, c) EXCEPT !.h[h] = MViewH(m, n, c, ldim, offset)]

\* matrixview<T> A(m, n, std::shared_ptr<T[]>(new T[k]), ldim, offset)
matrixview_over(S, h, cells, m, n, ldim, offset) ==
    LET c == NewCtrl(S)
    IN sp_release(matrixview_ctor(sp_new(S, cells), h, m, n, c, ldim, offset), c)

\* a copy that starts at the first element of the buffer
matrixview_copy_from_first(S, h, g) ==
    [sp_copy(S, S.h[g].data) EXCEPT
        !.h[h] = MViewH(S.h[g].m, S.h[g].n, S.h[g].data, S.h[g].ldim, 0)]

\* matrixview(const matrixview& m)
matrixview_copy(S, h, g) ==
    [sp_copy(S, S.h[g].data) EXCEPT
        !.h[h] = MViewH(S.h[g].m, S.h[g].n, S.h[g].data, S.h[g].ldim,
                                 S.h[g].offset)]

\* matrixview(matrixview&& m)
matrixview_move(S, h, g) ==
    [sp_copy(S, S.h[g].data) EXCEPT
        !.h[h] = MViewH(S.h[g].m, S.h[g].n, S.h[g].data, S.h[g].ldim,
                                 S.h[g].offset)]

\* a view whose leading dimension is the number of columns
matrixview_from_matrix_by_columns(S, h, g) ==
    [sp_copy(S, S.h[g].data) EXCEPT
        !.h[h] = MViewH(S.h[g].m, S.h[g].n, S.h[g].data, S.h[g].n, 0)]

\* matrixview(const matrix<T>& m)
matrixview_from_matrix(S, h, g) ==
    [sp_copy(S, S.h[g].data) EXCEPT
        !.h[h] = MViewH(S.h[g].m, S.h[g].n, S.h[g].data, S.h[g].m, 0)]

\* an assignment that takes the extents, leading dimension and offset of m
\* and leaves _data as it is
matrixview_assign_keep_data(S, h, g) ==
    [S EXCEPT !.h[h] = MViewH(S.h[g].m, S.h[g].n, S.h[h].data, S.h[g].ldim,
                              S.h[g].offset)]

\* operator=(const matrixview& m)
matrixview_assign(S, h, g) ==
    [sp_assign(S, S.h[h].data, S.h[g].data) EXCEPT
        !.h[h] = MViewH(S.h[g].m, S.h[g].n, S.h[g].data, S.h[g].ldim,
                        S.h[g].offset)]

\* operator=(matrixview&& m)
matrixview_move_assign(S, h, g) ==
    [sp_assign(S, S.h[h].data, S.h[g].data) EXCEPT
        !.h[h] = MViewH(S.h[g].m, S.h[g].n, S.h[g].data, S.h[g].ldim,
                        S.h[g].offset)]

\* a submatrix placed from the first element of the buffer, whatever the
\* offset of the view it is taken from
matrixview_submatrix_from_origin(S, h, g, i1, i2, j1, j2) ==
    [sp_copy(S, S.h[g].data) EXCEPT
        !.h[h] = MViewH(i2 - i1, j2 - j1, S.h[g].data, S.h[g].ldim,
                        i1 + j1 * S.h[g].ldim)]

\* submatrix(i1, i2, j1, j2)
matrixview_submatrix(S, h, g, i1, i2, j1, j2) ==
    [sp_copy(S, S.h[g].data) EXCEPT
        !.h[h] = MViewH(i2 - i1, j2 - j1, S.h[g].data, S.h[g].ldim,
                                 S.h[g].offset + i1 + j1 * S.h[g].ldim)]

\* column(i): vectorview<T>(_m, &_data[_offset + i * _ldim], 1)
matrixview_column(S, h, g, i) ==
    [sp_from_raw(S, S.h[g].data, S.h[g].offset + i * S.h[g].ldim) EXCEPT
        !.h[h] = ViewH(S.h[g].m, NewCtrl(S), 1, 0)]

\* row(i): vectorview<T>(_n, &_data[_offset + i], _ldim)
matrixview_row(S, h, g, i) ==
    [sp_from_raw(S, S.h[g].data, S.h[g].offset + i) EXCEPT
        !.h[h] = ViewH(S.h[g].n, NewCtrl(S), S.h[g].ldim, 0)]

----------------------------------------------------------------------------
(* A.row(i), A.column(i), A.submatrix(i1, i2, j1, j2) for A of either type *)

row(S, h, g, i) ==
    IF S.h[g].kind = "matrix" THEN matrix_row(S, h, g, i)
    ELSE matrixview_row(S, h, g, i)

column(S, h, g, i) ==
    IF S.h[g].kind = "matrix" THEN matrix_column(S, h, g, i)
    ELSE matrixview_column(S, h, g, i)

submatrix(S, h, g, i1, i2, j1, j2) ==
    IF S.h[g].kind = "matrix" THEN matrix_submatrix(S, h, g, i1, i2, j1, j2)
    ELSE matrixview_submatrix(S, h, g, i1, i2, j1, j2)

----------------------------------------------------------------------------
(* the routines of the tests                                               *)

\* for each index of order, in order: hd(i, j) += 1
RECURSIVE AddLoop(_, _, _)
AddLoop(S, hd, order) ==
    IF order = <<>> THEN S
    ELSE AddLoop(Put(S, hd, Head(order)[1], Head(order)[2],
                     Get(S, hd, Head(order)[1], Head(order)[2]) + 1),
                 hd, Tail(order))

\* add_one_ref(V& v), add_one_ref(M& m)
add_one_ref(S, h) == AddLoop(S, S.h[h], ColMajor(Rows(S.h[h]), Cols(S.h[h])))

\* the copy constructor of the object's own type
copy_construct(S, h, g) ==
    CASE S.h[g].kind = "vector" -> vector_copy(S, h, g)
      [] S.h[g].kind = "vectorview" -> vectorview_copy(S, h, g)
      [] S.h[g].kind = "matrix" -> matrix_copy(S, h, g)
      [] S.h[g].kind = "matrixview" -> matrixview_copy(S, h, g)

\* the move constructor of the object's own type
move_construct(S, h, g) ==
    CASE S.h[g].kind = "vector" -> vector_move(S, h, g)
      [] S.h[g].kind = "vectorview" -> vectorview_move(S, h, g)
      [] S.h[g].kind = "matrix" -> matrix_move(S, h, g)
      [] S.h[g].kind = "matrixview" -> matrixview_move(S, h, g)

\* h = std::move(g), both of one type
move_assign(S, h, g) ==
    CASE S.h[g].kind = "vector" -> vector_move_assign(S, h, g)
      [] S.h[g].kind = "vectorview" -> vectorview_move_assign(S, h, g)
      [] S.h[g].kind = "matrix" -> matrix_move_assign(S, h, g)
      [] S.h[g].kind = "matrixview" -> matrixview_move_assign(S, h, g)

\* the constructor of the other type of the same rank: the owning container
\* from a view, the view from an owning container
convert_construct(S, h, g) ==
    CASE S.h[g].kind = "vector" -> vectorview_from_vector(S, h, g)
      [] S.h[g].kind = "vectorview" -> vector_copy(S, h, g)
      [] S.h[g].kind = "matrix" -> matrixview_from_matrix(S, h, g)
      [] S.h[g].kind = "matrixview" -> matrix_copy(S, h, g)

\* a call f(arg) of a routine that takes its parameter by value: the parameter
\* is constructed (in slot Param), the body runs on it, and it is destroyed
by_value(S, param) == Destruct(add_one_ref(S, param), param)

\* add_one_value(v): the parameter has the argument's type
add_one_value(S, g) == by_value(copy_construct(S, Param, g), Param)

\* add_one_value<vector<T>>(view), add_one_value<vectorview<T>>(v), and the
\* same for matrices: the parameter has the other type
add_one_value_as(S, g) == by_value(convert_construct(S, Param, g), Param)

----------------------------------------------------------------------------
(* the program: one action per operation                                   *)

Kind(h) == handles[h].kind
HasSlot == FreeSlots(Cur) # {}
HasCtrl == FreeCtrls(Cur) # {}
OfKind(k) == {h \in Handles : handles[h].kind = k}
Lens == 1..MaxLen
Shapes == (1..MaxDim) \X (1..MaxDim)

\* every element of the object can be incremented within the value bound
CanAdd(h) == \A x \in Idx(handles[h]) :
                 Get(Cur, handles[h], x[1], x[2]) \in 0..(MaxVal - 1)

\* The address new T[k] returns, and where a control block lives, mean
\* nothing to the program: between operations the control blocks are named
\* in the order in which the objects 1, 2, ... reference them, and the
\* allocations in the order in which those control blocks reference them.
RECURSIVE CtrlOrder(_, _, _)
CtrlOrder(S, h, acc) ==
    IF h > MaxHandle THEN acc
    ELSE CtrlOrder(S, h + 1,
            IF S.h[h].kind = "none" \/ \E k \in 1..Len(acc) : acc[k] = S.h[h].data
            THEN acc ELSE Append(acc, S.h[h].data))

RECURSIVE AllocOrder(_, _, _)
AllocOrder(S, cs, acc) ==
    IF cs = <<>> THEN acc
    ELSE AllocOrder(S, Tail(cs),
            IF \E k \in 1..Len(acc) : acc[k] = S.c[Head(cs)].alloc
            THEN acc ELSE Append(acc, S.c[Head(cs)].alloc))

Pos(seq, x) == CHOOSE k \in 1..Len(seq) : seq[k] = x

Renamed(S) ==
    LET co == CtrlOrder(S, 1, <<>>)
        ao == AllocOrder(S, co, <<>>)
    IN [h |-> [x \in Slots |-> IF S.h[x].kind = "none" THEN NoHandle
                                ELSE [S.h[x] EXCEPT !.data = Pos(co, @)]],
        c |-> [x \in Ctrls |-> IF x <= Len(co)
                                THEN [S.c[co[x]] EXCEPT !.alloc = Pos(ao, @)]
                                ELSE NoCtrl],
        m |-> [x \in Allocs |-> IF x <= Len(ao) THEN S.m[ao[x]] ELSE NoBlock],
        ub |-> S.ub]

\* the operation's result becomes the program's state
Step(S) ==
    LET N == Renamed(S)
    IN handles' = N.h /\ ctrl' = N.c /\ heap' = N.m /\ ub' = N.ub

Init ==
    /\ handles = [h \in Slots |-> NoHandle]
    /\ ctrl = [c \in Ctrls |-> NoCtrl]
    /\ heap = [a \in Allocs |-> NoBlock]
    /\ ub = "none"

\* std::unique_ptr<T[]> data(new T[k])
unique_ctor(S, h, cells) ==
    [sp_new(S, cells) EXCEPT !.h[h] = UniqueH(Len(cells), NewCtrl(S))]

\* a vector, vectorview, matrix or matrixview
IsObject(h) == IsOwner(handles[h]) \/ IsView(handles[h])

UniqueCtor ==
    /\ HasSlot /\ CanNew(Cur)
    /\ \E k \in Lens : \E cells \in [1..k -> Val] :
          Step(unique_ctor(Cur, NewSlot(Cur), cells))

\* the view lies within the buffer it is given
ViewFits(k, n, stride, offset) == offset + (n - 1) * stride < k

ViewCtor ==
    /\ HasSlot /\ CanNew(Cur)
    /\ \E k \in Lens : \E cells \in [1..k -> Val] :
       \E n \in Lens, stride \in 1..MaxStride, offset \in 0..(MaxLen - 1) :
          /\ ViewFits(k, n, stride, offset)
          /\ Step(vectorview_over(Cur, NewSlot(Cur), cells, n, stride, offset))

ViewOverRaw ==
    /\ HasSlot /\ HasCtrl
    /\ \E g \in OfKind("unique") : \E n \in Lens, stride \in 1..MaxStride :
          /\ ViewFits(handles[g].n, n, stride, 0)
          /\ Step(vectorview_over_raw(Cur, NewSlot(Cur), g, n, stride))

\* the buffer of the tests: new T[offset + ldim * n]
MViewCtor ==
    /\ HasSlot /\ CanNew(Cur)
    /\ \E s \in Shapes, ldim \in 1..MaxDim, offset \in 0..MaxDim :
          /\ ldim >= s[1]
          /\ offset + ldim * s[2] <= MaxDim * MaxDim
          /\ \E cells \in [1..(offset + ldim * s[2]) -> Val] :
                Step(matrixview_over(Cur, NewSlot(Cur), cells, s[1], s[2],
                                     ldim, offset))

VectorCtor ==
    /\ HasSlot /\ CanNew(Cur)
    /\ \E n \in Lens : \E cells \in [1..n -> Val] :
          Step(vector_ctor(Cur, NewSlot(Cur), cells))

VectorFill ==
    /\ HasSlot /\ CanNew(Cur)
    /\ \E n \in Lens, value \in Val :
          Step(vector_fill(Cur, NewSlot(Cur), n, value))

VectorCopy ==
    /\ HasSlot /\ CanNew(Cur)
    /\ \E g \in OfKind("vector") :
          Step(vector_copy(Cur, NewSlot(Cur), g))

VectorFromView ==
    /\ HasSlot /\ CanNew(Cur)
    /\ \E g \in OfKind("vectorview") :
          Step(vector_copy(Cur, NewSlot(Cur), g))

VectorMove ==
    /\ HasSlot
    /\ \E g \in OfKind("vector") :
          Step(vector_move(Cur, NewSlot(Cur), g))

VectorAssign ==
    \E h \in OfKind("vector"), g \in OfKind("vector") :
       /\ handles[g].n = handles[h].n
       /\ Step(vector_assign(Cur, h, g))

VectorAssignFrom ==
    \E h \in OfKind("vector"), g \in OfKind("vectorview") :
       /\ handles[g].n = handles[h].n
       /\ Step(vector_assign(Cur, h, g))

VectorMoveAssign ==
    \E h \in OfKind("vector"), g \in OfKind("vector") :
       /\ handles[g].n = handles[h].n
       /\ Step(vector_move_assign(Cur, h, g))

\* the asserts of subvector(start, end, stride) on an object of length n
SubvectorOk(hd, start, end, stride) ==
    start >= 0 /\ end <= hd.n /\ start < end /\ stride > 0

VectorSubvector ==
    /\ HasSlot
    /\ \E g \in OfKind("vector") :
       \E start \in 0..MaxLen, end \in 0..MaxLen, stride \in 1..MaxStride :
          /\ SubvectorOk(handles[g], start, end, stride)
          /\ Step(vector_subvector(Cur, NewSlot(Cur), g, start, end, stride))

ViewCopy ==
    /\ HasSlot
    /\ \E g \in OfKind("vectorview") :
          Step(vectorview_copy(Cur, NewSlot(Cur), g))

ViewMove ==
    /\ HasSlot
    /\ \E g \in OfKind("vectorview") :
          Step(vectorview_move(Cur, NewSlot(Cur), g))

ViewAssign ==
    \E h \in OfKind("vectorview"), g \in OfKind("vectorview") :
       /\ handles[g].n = handles[h].n
       /\ handles[g].stride = handles[h].stride
       /\ handles[g].offset = handles[h].offset
       /\ Step(vectorview_assign(Cur, h, g))

ViewMoveAssign ==
    \E h \in OfKind("vectorview"), g \in OfKind("vectorview") :
       /\ handles[g].n = handles[h].n
       /\ handles[g].stride = handles[h].stride
       /\ handles[g].offset = handles[h].offset
       /\ Step(vectorview_move_assign(Cur, h, g))

ViewSubvector ==
    /\ HasSlot
    /\ \E g \in OfKind("vectorview") :
       \E start \in 0..MaxLen, end \in 0..MaxLen, stride \in 1..MaxStride :
          /\ SubvectorOk(handles[g], start, end, stride)
          /\ Step(vectorview_subvector(Cur, NewSlot(Cur), g, start, end, stride))

ViewFromVector ==
    /\ HasSlot
    /\ \E g \in OfKind("vector") :
          Step(vectorview_from_vector(Cur, NewSlot(Cur), g))

MatrixCtor ==
    /\ HasSlot /\ CanNew(Cur)
    /\ \E s \in Shapes : \E cells \in [1..(s[1] * s[2]) -> Val] :
          Step(matrix_ctor(Cur, NewSlot(Cur), s[1], s[2], cells))

MatrixCopy ==
    /\ HasSlot /\ CanNew(Cur)
    /\ \E g \in OfKind("matrix") :
          Step(matrix_copy(Cur, NewSlot(Cur), g))

MatrixFromView ==
    /\ HasSlot /\ CanNew(Cur)
    /\ \E g \in OfKind("matrixview") :
          Step(matrix_copy(Cur, NewSlot(Cur), g))

MatrixMove ==
    /\ HasSlot
    /\ \E g \in OfKind("matrix") :
          Step(matrix_move(Cur, NewSlot(Cur), g))

MatrixAssign ==
    \E h \in OfKind("matrix"), g \in OfKind("matrix") :
       /\ handles[g].m = handles[h].m
       /\ handles[g].n = handles[h].n
       /\ Step(matrix_assign(Cur, h, g))

MatrixAssignFrom ==
    \E h \in OfKind("matrix"), g \in OfKind("matrixview") :
       /\ handles[g].m = handles[h].m
       /\ handles[g].n = handles[h].n
       /\ Step(matrix_assign(Cur, h, g))

MatrixMoveAssign ==
    \E h \in OfKind("matrix"), g \in OfKind("matrix") :
       /\ handles[g].m = handles[h].m
       /\ handles[g].n = handles[h].n
       /\ Step(matrix_move_assign(Cur, h, g))

\* the asserts of a submatrix that does not check j2 against the number of
\* columns
SubmatrixOk_open_columns(hd, i1, i2, j1, j2) ==
    /\ i1 >= 0 /\ i2 <= hd.m /\ j1 >= 0
    /\ i1 < i2 /\ j1 < j2

\* the asserts of submatrix(i1, i2, j1, j2) on an m x n object
SubmatrixOk(hd, i1, i2, j1, j2) ==
    /\ i1 >= 0 /\ i2 <= hd.m /\ j1 >= 0 /\ j2 <= hd.n
    /\ i1 < i2 /\ j1 < j2

MatrixSubmatrix ==
    /\ HasSlot
    /\ \E g \in OfKind("matrix") :
       \E i1 \in 0..MaxDim, i2 \in 0..MaxDim, j1 \in 0..MaxDim, j2 \in 0..MaxDim :
          /\ SubmatrixOk(handles[g], i1, i2, j1, j2)
          /\ Step(matrix_submatrix(Cur, NewSlot(Cur), g, i1, i2, j1, j2))

MatrixColumn ==
    /\ HasSlot /\ HasCtrl
    /\ \E g \in OfKind("matrix") : \E i \in 0..MaxDim :
          /\ i >= 0 /\ i < handles[g].n
          /\ Step(matrix_column(Cur, NewSlot(Cur), g, i))

MatrixRow ==
    /\ HasSlot /\ HasCtrl
    /\ \E g \in OfKind("matrix") : \E i \in 0..MaxDim :
          /\ i >= 0 /\ i < handles[g].m
          /\ Step(matrix_row(Cur, NewSlot(Cur), g, i))

MViewCopy ==
    /\ HasSlot
    /\ \E g \in OfKind("matrixview") :
          Step(matrixview_copy(Cur, NewSlot(Cur), g))

MViewMove ==
    /\ HasSlot
    /\ \E g \in OfKind("matrixview") :
          Step(matrixview_move(Cur, NewSlot(Cur), g))

MViewFromMatrix ==
    /\ HasSlot
    /\ \E g \in OfKind("matrix") :
          Step(matrixview_from_matrix(Cur, NewSlot(Cur), g))

MViewAssign ==
    \E h \in OfKind("matrixview"), g \in OfKind("matrixview") :
       Step(matrixview_assign(Cur, h, g))

MViewMoveAssign ==
    \E h \in OfKind("matrixview"), g \in OfKind("matrixview") :
       Step(matrixview_move_assign(Cur, h, g))

MViewSubmatrix ==
    /\ HasSlot
    /\ \E g \in OfKind("matrixview") :
       \E i1 \in 0..MaxDim, i2 \in 0..MaxDim, j1 \in 0..MaxDim, j2 \in 0..MaxDim :
          /\ SubmatrixOk(handles[g], i1, i2, j1, j2)
          /\ Step(matrixview_submatrix(Cur, NewSlot(Cur), g, i1, i2, j1, j2))

MViewColumn ==
    /\ HasSlot /\ HasCtrl
    /\ \E g \in OfKind("matrixview") : \E i \in 0..MaxDim :
          /\ i >= 0 /\ i < handles[g].n
          /\ Step(matrixview_column(Cur, NewSlot(Cur), g, i))

MViewRow ==
    /\ HasSlot /\ HasCtrl
    /\ \E g \in OfKind("matrixview") : \E i \in 0..MaxDim :
          /\ i >= 0 /\ i < handles[g].m
          /\ Step(matrixview_row(Cur, NewSlot(Cur), g, i))

\* v[i] = x, m(i, j) = x
Write ==
    \E h \in Handles : \E x \in Idx(handles[h]) : \E value \in Val :
       /\ IsObject(h)
       /\ Step(Put(Cur, handles[h], x[1], x[2], value))

\* the end of the object's scope
Destroy ==
    \E h \in Handles :
       /\ Kind(h) # "none"
       /\ Step(Destruct(Cur, h))

AddOneRef ==
    \E h \in Handles :
       /\ IsObject(h) /\ CanAdd(h)
       /\ Step(add_one_ref(Cur, h))

AddOneValue ==
    \E h \in Handles :
       /\ IsObject(h) /\ CanAdd(h)
       /\ (IsOwner(handles[h]) => CanNew(Cur))
       /\ Step(add_one_value(Cur, h))

AddOneValueAs ==
    \E h \in Handles :
       /\ IsObject(h) /\ CanAdd(h)
       /\ (IsView(handles[h]) => CanNew(Cur))
       /\ Step(add_one_value_as(Cur, h))

Next ==
    \/ VectorCtor \/ VectorFill \/ VectorCopy \/ VectorFromView \/ VectorMove
    \/ VectorAssign \/ VectorAssignFrom \/ VectorMoveAssign \/ VectorSubvector
    \/ ViewCopy \/ ViewMove \/ ViewAssign \/ ViewMoveAssign \/ ViewSubvector
    \/ ViewFromVector
    \/ MatrixCtor \/ MatrixCopy \/ MatrixFromView \/ MatrixMove
    \/ MatrixAssign \/ MatrixAssignFrom \/ MatrixMoveAssign
    \/ MatrixSubmatrix \/ MatrixColumn \/ MatrixRow
    \/ MViewCopy \/ MViewMove \/ MViewFromMatrix \/ MViewAssign \/ MViewMoveAssign
    \/ MViewSubmatrix \/ MViewColumn \/ MViewRow
    \/ Write \/ Destroy \/ AddOneRef \/ AddOneValue \/ AddOneValueAs

\* the programs over vectors and matrices and the views taken from them
Spec == Init /\ [][Next]_vars

\* the programs of the tests of the views: a view is constructed over a
\* buffer that the program supplies, as a shared_ptr or as the raw pointer
\* of a unique_ptr, and is copied, assigned, sliced, written and destroyed
NextViews ==
    \/ UniqueCtor \/ ViewCtor \/ ViewOverRaw \/ MViewCtor
    \/ ViewCopy \/ ViewMove \/ ViewAssign \/ ViewMoveAssign \/ ViewSubvector
    \/ MViewCopy \/ MViewMove \/ MViewAssign \/ MViewMoveAssign
    \/ MViewSubmatrix \/ MViewColumn \/ MViewRow
    \/ Write \/ Destroy

SpecViews == Init /\ [][NextViews]_vars

----------------------------------------------------------------------------
(* the vocabulary of the properties                                        *)

\* the buffer behind the object is allocated
Valid(S, hd) == S.m[S.c[hd.data].alloc].state = "live"

At(S, hd, x) == Get(S, hd, x[1], x[2])
Set(S, hd, x, value) == Put(S, hd, x[1], x[2], value)

\* the elements of the object, by index
Values(S, hd) == [x \in Idx(hd) |-> At(S, hd, x)]

\* hd at index x and gd at index y are one storage cell: the same address,
\* and what is written through either is read back through the other
SameCell(S, hd, x, gd, y) ==
    /\ Cell(S, hd, x[1], x[2]) = Cell(S, gd, y[1], y[2])
    /\ At(S, hd, x) = At(S, gd, y)
    /\ \A value \in Val :
          /\ At(Set(S, hd, x, value), gd, y) = value
          /\ At(Set(S, gd, y, value), hd, x) = value

\* the objects that reference allocation a
Referrers(S, a) ==
    {h \in Slots : S.h[h].kind # "none" /\ S.c[S.h[h].data].alloc = a}

\* the end of the scope of every object of hs, one after the other
RECURSIVE DestructAll(_, _)
DestructAll(S, hs) ==
    IF hs = {} THEN S
    ELSE DestructAll(Destruct(S, Min(hs)), hs \ {Min(hs)})

\* the object has the extents of the other
SameExtents(hd, gd) ==
    Is1D(hd) = Is1D(gd) /\ Rows(hd) = Rows(gd) /\ Cols(hd) = Cols(gd)

\* no storage cell belongs to both objects
Disjoint(S, hd, gd) ==
    \A x \in Idx(hd), y \in Idx(gd) :
       Cell(S, hd, x[1], x[2]) # Cell(S, gd, y[1], y[2])

\* every element of the object in T is one more than it is in S
Incremented(S, T, hd) == \A x \in Idx(hd) : At(T, hd, x) = At(S, hd, x) + 1

Owners == OfKind("vector") \cup OfKind("matrix")
Views == OfKind("vectorview") \cup OfKind("matrixview")
Grids == OfKind("matrix") \cup OfKind("matrixview")

----------------------------------------------------------------------------
(* C1 *)

----------------------------------------------------------------------------
(* C2 *)

\* C2: for a matrix or matrixview A whose buffer is allocated, and all valid
\* i and j: A.row(i)[j], A.column(j)[i] and, for i1 <= i < i2 and
\* j1 <= j < j2, A.submatrix(i1, i2, j1, j2)(i - i1, j - j1) are the storage
\* cell of A(i, j): they read the same value, and a write through the slice
\* is read back through A(i, j) and the other way round.
C2_SlicesAlias ==
    \A g \in Grids :
       LET A == handles[g]
       IN Valid(Cur, A) =>
          /\ \A i \in 0..(A.m - 1) :
                LET S1 == row(Cur, Param, g, i)
                    V == S1.h[Param]
                IN /\ V.n = A.n
                   /\ \A j \in 0..(A.n - 1) :
                         SameCell(S1, V, <<j, 0>>, A, <<i, j>>)
          /\ \A j \in 0..(A.n - 1) :
                LET S1 == column(Cur, Param, g, j)
                    V == S1.h[Param]
                IN /\ V.n = A.m
                   /\ \A i \in 0..(A.m - 1) :
                         SameCell(S1, V, <<i, 0>>, A, <<i, j>>)
          /\ \A i1 \in 0..MaxDim, i2 \in 0..MaxDim, j1 \in 0..MaxDim, j2 \in 0..MaxDim :
                SubmatrixOk(A, i1, i2, j1, j2) =>
                   LET S1 == submatrix(Cur, Param, g, i1, i2, j1, j2)
                       V == S1.h[Param]
                   IN \A i \in i1..(i2 - 1), j \in j1..(j2 - 1) :
                         SameCell(S1, V, <<i - i1, j - j1>>, A, <<i, j>>)

\* a matrix of more than one row and column, and a view of its second row:
\* the 1 at the view's second element is the matrix's element (1, 1)
C2_Witness ==
    \E g \in OfKind("matrix"), h \in OfKind("vectorview") :
       /\ handles[g].m > 1 /\ handles[g].n > 1
       /\ ctrl[handles[h].data].alloc = ctrl[handles[g].data].alloc
       /\ ctrl[handles[h].data].off = 1
       /\ handles[h].stride = handles[g].m /\ handles[h].n = handles[g].n
       /\ At(Cur, handles[h], <<1, 0>>) = 1
       /\ At(Cur, handles[g], <<1, 1>>) = 1
       /\ At(Cur, handles[g], <<0, 1>>) = 0

----------------------------------------------------------------------------
(* C3 *)

\* C3: for a vector or matrix A, B copy-constructed from A has A's type and
\* extents, data() of B differs from data() of A, and the two have no
\* storage cell in common (so no sequence of writes to one changes the
\* other); where A's buffer is allocated, B has A's element values, the
\* copy leaves A's as they were, one write to B leaves every element of A
\* as it was and one write to A leaves every element of B as it was.
C3_CopyIndependent ==
    \A g \in Owners :
       CanNew(Cur) =>
          LET S1 == copy_construct(Cur, Param, g)
              A == handles[g]
              B == S1.h[Param]
          IN /\ B.kind = A.kind /\ SameExtents(B, A)
             /\ DataPtr(S1, B) # DataPtr(S1, A)
             /\ Disjoint(S1, A, B)
             /\ Valid(Cur, A) =>
                   /\ Values(S1, B) = Values(Cur, A)
                   /\ Values(S1, A) = Values(Cur, A)
                   /\ \A x \in Idx(B), value \in Val :
                         /\ Values(Set(S1, B, x, value), A) = Values(Cur, A)
                         /\ Values(Set(S1, A, x, value), B) = Values(S1, B)

\* two owning containers of one type with equal elements, not all of them 0,
\* in different buffers, as a copy leaves them, where a further copy can be
\* made
C3_Witness ==
    \E g \in Owners, h \in Owners :
       /\ g # h /\ handles[g].kind = handles[h].kind
       /\ Values(Cur, handles[g]) = Values(Cur, handles[h])
       /\ \E x \in Idx(handles[g]) : At(Cur, handles[g], x) = 1
       /\ \E x \in Idx(handles[g]) : At(Cur, handles[g], x) = 0
       /\ DataPtr(Cur, handles[g]) # DataPtr(Cur, handles[h])
       /\ CanNew(Cur)

----------------------------------------------------------------------------
(* C4 *)

\* C4: a routine that adds one to every element, called on an object whose
\* buffer is allocated.  Called by value (the parameter is a copy of the
\* argument, of the argument's type), it leaves the caller's elements
\* incremented if the argument is a vectorview or matrixview and leaves the
\* whole program state as it was if the argument is a vector or matrix.
\* Called by reference, it leaves the caller's elements incremented for
\* both kinds.
C4_ByValueDispatch ==
    \A h \in Handles :
       (Kind(h) # "none" /\ Valid(Cur, handles[h]) /\ CanAdd(h)) =>
          /\ IsView(handles[h]) =>
                Incremented(Cur, add_one_value(Cur, h), handles[h])
          /\ (IsOwner(handles[h]) /\ CanNew(Cur)) =>
                /\ Values(add_one_value(Cur, h), handles[h]) = Values(Cur, handles[h])
                /\ add_one_value(Cur, h) = Cur
          /\ Incremented(Cur, add_one_ref(Cur, h), handles[h])

\* an owning container and a view of all its elements, none of them at the
\* value bound: the call by value with the view changes the elements, the
\* call by value with the container does not
C4_Witness ==
    \E g \in Owners, h \in Views :
       /\ DataPtr(Cur, handles[h]) = DataPtr(Cur, handles[g])
       /\ Rows(handles[h]) = Rows(handles[g]) /\ Cols(handles[h]) = Cols(handles[g])
       /\ Rows(handles[g]) > 1
       /\ CanAdd(g) /\ CanAdd(h) /\ CanNew(Cur)
       /\ Values(add_one_value(Cur, h), handles[g]) # Values(Cur, handles[g])
       /\ Values(add_one_value(Cur, g), handles[g]) = Values(Cur, handles[g])

----------------------------------------------------------------------------
(* C5 *)

\* C5: whatever operations have run, every buffer is freed exactly once, when
\* its last referring object is released: no delete[] is run on a buffer
\* already freed or on a pointer that is no buffer, no live object
\* references a freed buffer, and no buffer stays allocated without an
\* object that references it.
C5_FreedExactlyOnce ==
    /\ ub = "none"
    /\ \A h \in Handles : Kind(h) # "none" => Valid(Cur, handles[h])
    /\ \A a \in Allocs : heap[a].state = "live" => Referrers(Cur, a) # {}

----------------------------------------------------------------------------
(* C6 *)

\* C6: for a view V into the buffer of an owning container A (a slice of A,
\* or a slice of a slice): when A is destroyed the buffer stays allocated
\* and nothing undefined is run, every V[i] reads what it read before and
\* reads back what is written to it, and when the objects that still
\* reference the buffer are destroyed the buffer is freed, once.
C6_ViewOutlivesSource ==
    \A g \in Owners, h \in Views :
       LET A == handles[g]
           V == handles[h]
           a == ctrl[A.data].alloc
       IN (ctrl[V.data].alloc = a /\ Valid(Cur, A)) =>
             LET S1 == Destruct(Cur, g)
                 S2 == DestructAll(S1, Referrers(S1, a))
             IN /\ S1.ub = "none"
                /\ S1.m[a].state = "live"
                /\ Values(S1, V) = Values(Cur, V)
                /\ \A x \in Idx(V), value \in Val :
                      At(Set(S1, V, x, value), V, x) = value
                /\ S2.ub = "none"
                /\ S2.m[a].state = "none"

----------------------------------------------------------------------------
(* C7 *)

\* C7: a vector constructed from a vectorview, or a matrix from a matrixview,
\* whose buffer is allocated: it is an owning container with the view's
\* extents; its element at every index is the element of the view's buffer
\* at offset + i * stride (offset + i + j * ldim for a matrixview); its
\* buffer was not allocated before and no buffer that was is changed; it
\* shares no storage cell with the view, so that a write through either
\* leaves the other's elements and the other's buffer as they were; and
\* the by-value routine taking the owning type, called with the view,
\* leaves the whole program state as it was.
C7_OwnerFromView ==
    \A g \in Views :
       (Valid(Cur, handles[g]) /\ CanNew(Cur)) =>
          LET V == handles[g]
              S1 == convert_construct(Cur, Param, g)
              B == S1.h[Param]
              base == DataPtr(Cur, V)
              fresh == S1.c[B.data].alloc
          IN /\ IsOwner(B) /\ SameExtents(B, V)
             /\ \A x \in Idx(V) :
                   At(S1, B, x) =
                      Load(Cur, <<base[1], base[2] +
                                  (IF Is1D(V) THEN V.offset + x[1] * V.stride
                                   ELSE V.offset + x[1] + x[2] * V.ldim)>>)
             /\ heap[fresh].state = "none"
             /\ \A a \in Allocs \ {fresh} : S1.m[a] = heap[a]
             /\ Disjoint(S1, B, V)
             /\ \A x \in Idx(V), value \in Val :
                   /\ Values(Set(S1, B, x, value), V) = Values(Cur, V)
                   /\ Set(S1, B, x, value).m[base[1]] = heap[base[1]]
                   /\ Values(Set(S1, V, x, value), B) = Values(S1, B)
             /\ CanAdd(g) => add_one_value_as(Cur, g) = Cur

\* a view that skips elements of its buffer, whose elements are not all
\* equal and can be incremented, where a container can be constructed from
\* it: the container gets the view's elements, not the buffer's first ones
C7_Witness ==
    \E g \in OfKind("vectorview") :
       /\ Valid(Cur, handles[g]) /\ CanNew(Cur) /\ CanAdd(g)
       /\ handles[g].n > 1 /\ handles[g].stride > 1
       /\ Load(Cur, <<DataPtr(Cur, handles[g])[1], 1>>) = 1
       /\ Values(convert_construct(Cur, Param, g), VecH(handles[g].n, NewCtrl(Cur)))
             = [x \in Idx(handles[g]) |-> 0]

----------------------------------------------------------------------------
(* C8 *)

\* C8: the copy constructor and the move constructor of a vectorview or
\* matrixview copy no element: the new view has the length or extents, the
\* stride or leading dimension and the offset of the source, data() of the
\* two is equal, no buffer is allocated or changed, and, where the buffer is
\* allocated, index x of the one and index x of the other are one storage
\* cell (a write through either is read back through the other).
C8_ViewCopyShallow ==
    \A g \in Views :
    \A S1 \in {copy_construct(Cur, Param, g), move_construct(Cur, Param, g)} :
       LET V == handles[g]
           W == S1.h[Param]
       IN /\ W.kind = V.kind
          /\ W.n = V.n /\ W.m = V.m
          /\ W.stride = V.stride /\ W.ldim = V.ldim /\ W.offset = V.offset
          /\ DataPtr(S1, W) = DataPtr(Cur, V)
          /\ S1.h[g] = V
          /\ S1.m = heap
          /\ Valid(Cur, V) => \A x \in Idx(V) : SameCell(S1, W, x, V, x)

\* two views with the same fields on one control block, as the copy of a
\* view leaves them, that start past the first element of the buffer and
\* read a 1 there
C8_Witness ==
    \E g \in Views, h \in Views :
       /\ g # h /\ handles[g] = handles[h]
       /\ ctrl[handles[g].data].refs > 1
       /\ handles[g].offset > 0
       /\ At(Cur, handles[g], <<0, 0>>) = 1 /\ At(Cur, handles[h], <<0, 0>>) = 1
       /\ Load(Cur, <<DataPtr(Cur, handles[g])[1], 0>>) = 0

----------------------------------------------------------------------------
(* C9 *)

----------------------------------------------------------------------------
(* C10 *)

\* C10: the vector or matrix move-constructed from A, and the vector or
\* matrix B of A's extents after B = std::move(A), has data() equal to
\* data() of A before the move, keeps its type and extents and, where A's
\* buffer is allocated, has at every index the element A had before the
\* move.
C10_MoveKeepsStorage ==
    /\ \A g \in Owners :
          LET A == handles[g]
              S1 == move_construct(Cur, Param, g)
              B == S1.h[Param]
          IN /\ B.kind = A.kind /\ SameExtents(B, A)
             /\ DataPtr(S1, B) = DataPtr(Cur, A)
             /\ Valid(Cur, A) => Values(S1, B) = Values(Cur, A)
    /\ \A g \in Owners, h \in Owners :
          (Kind(h) = Kind(g) /\ SameExtents(handles[h], handles[g])) =>
             LET A == handles[g]
                 S1 == move_assign(Cur, h, g)
                 B == S1.h[h]
             IN /\ B.kind = A.kind /\ SameExtents(B, A)
                /\ DataPtr(S1, B) = DataPtr(Cur, A)
                /\ Valid(Cur, A) => Values(S1, B) = Values(Cur, A)

\* two owning containers on one control block, as a move leaves them, with
\* elements that are not all equal
C10_Witness ==
    \E g \in Owners, h \in Owners :
       /\ g # h /\ handles[g] = handles[h]
       /\ ctrl[handles[g].data].refs = 2
       /\ \E x \in Idx(handles[g]) : At(Cur, handles[g], x) = 1
       /\ \E x \in Idx(handles[g]) : At(Cur, handles[g], x) = 0

----------------------------------------------------------------------------
(* C11 *)

\* h = g, both of one type
copy_assign(S, h, g) ==
    CASE S.h[g].kind = "vector" -> vector_assign(S, h, g)
      [] S.h[g].kind = "vectorview" -> vectorview_assign(S, h, g)
      [] S.h[g].kind = "matrix" -> matrix_assign(S, h, g)
      [] S.h[g].kind = "matrixview" -> matrixview_assign(S, h, g)

\* the allocations of T are those of S, each with its state and length
SameAllocations(S, T) ==
    \A a \in Allocs :
       T.m[a].state = S.m[a].state /\ Len(T.m[a].cells) = Len(S.m[a].cells)

\* C11 (as amended): v2 = v between two vectors, or two matrices, of equal
\* extents allocates nothing, frees nothing and rebinds nothing: every
\* object keeps its fields and its control block, data() of v2 and of v are
\* what they were, so they differ after the assignment when they differed
\* before it, and, where both buffers are allocated, v2 has at every index
\* the element of v, which v keeps.
C11_AssignKeepsStorage ==
    \A h \in Owners, g \in Owners :
       (Kind(h) = Kind(g) /\ SameExtents(handles[h], handles[g])) =>
          LET S1 == copy_assign(Cur, h, g)
          IN /\ S1.h = handles /\ S1.c = ctrl
             /\ SameAllocations(Cur, S1)
             /\ DataPtr(S1, S1.h[h]) = DataPtr(Cur, handles[h])
             /\ DataPtr(S1, S1.h[g]) = DataPtr(Cur, handles[g])
             /\ (DataPtr(Cur, handles[h]) # DataPtr(Cur, handles[g]) =>
                    DataPtr(S1, S1.h[h]) # DataPtr(S1, S1.h[g]))
             /\ (Valid(Cur, handles[h]) /\ Valid(Cur, handles[g])) =>
                    /\ Values(S1, S1.h[h]) = Values(Cur, handles[g])
                    /\ Values(S1, S1.h[g]) = Values(Cur, handles[g])

\* C11 (as stated): after v2 = v between two distinct vectors, or matrices,
\* of equal extents, data() of v2 is what it was, data() of v is what it
\* was, and the two differ.
C11_AssignStorageDistinct ==
    \A h \in Owners, g \in Owners :
       (h # g /\ Kind(h) = Kind(g) /\ SameExtents(handles[h], handles[g])) =>
          LET S1 == copy_assign(Cur, h, g)
          IN /\ DataPtr(S1, S1.h[h]) = DataPtr(Cur, handles[h])
             /\ DataPtr(S1, S1.h[g]) = DataPtr(Cur, handles[g])
             /\ DataPtr(S1, S1.h[h]) # DataPtr(S1, S1.h[g])

\* two owning containers of equal extents on two buffers, with equal
\* elements that are not all the same, as the assignment leaves them, and a
\* third buffer free, so that an assignment that allocated would show
C11_Witness ==
    \E h \in Owners, g \in Owners :
       /\ Kind(h) = Kind(g) /\ SameExtents(handles[h], handles[g])
       /\ DataPtr(Cur, handles[h]) # DataPtr(Cur, handles[g])
       /\ Valid(Cur, handles[h]) /\ Valid(Cur, handles[g])
       /\ Values(Cur, handles[h]) = Values(Cur, handles[g])
       /\ \E x \in Idx(handles[g]) : At(Cur, handles[g], x) = 1
       /\ \E x \in Idx(handles[g]) : At(Cur, handles[g], x) = 0
       /\ copy_assign(Cur, h, g) = Cur

----------------------------------------------------------------------------
(* C12 *)

\* asserts of operator= that do not check the number of columns of a matrix
AssignOk_rows_only(hd, gd) ==
    CASE hd.kind = "vector" -> gd.n = hd.n
      [] hd.kind = "vectorview" ->
            gd.n = hd.n /\ gd.stride = hd.stride /\ gd.offset = hd.offset
      [] hd.kind = "matrix" -> gd.m = hd.m
      [] hd.kind = "matrixview" -> TRUE

\* the asserts of operator= of hd's type, for the right-hand side gd of the
\* same type; the operator= of matrixview has none
AssignOk(hd, gd) ==
    CASE hd.kind = "vector" -> gd.n = hd.n
      [] hd.kind = "vectorview" ->
            gd.n = hd.n /\ gd.stride = hd.stride /\ gd.offset = hd.offset
      [] hd.kind = "matrix" -> gd.m = hd.m /\ gd.n = hd.n
      [] hd.kind = "matrixview" -> TRUE

\* no element of an allocated buffer of T differs from what it is in S
NothingStored(S, T) ==
    \A a \in Allocs : T.m[a].state = "live" => T.m[a] = S.m[a]

\* C12 (as amended): v2 = v and v2 = std::move(v) between two vectorviews
\* require equal length, stride and offset, between two matrixviews
\* nothing; they store no element in any buffer and rebind v2: v2 holds
\* the control block of v and has the extents, stride or leading dimension,
\* and offset of v (for a vectorview these are v2's own); the control
\* block v2 held loses one owner; no other object changes.
C12_ViewAssignRebinds ==
    \A h \in Views, g \in Views :
       (Kind(h) = Kind(g) /\ AssignOk(handles[h], handles[g])) =>
          \A S1 \in {copy_assign(Cur, h, g), move_assign(Cur, h, g)} :
             /\ S1.h[h] = handles[g]
             /\ (Kind(h) = "vectorview" =>
                    S1.h[h] = [handles[h] EXCEPT !.data = handles[g].data])
             /\ \A x \in Slots \ {h} : S1.h[x] = handles[x]
             /\ NothingStored(Cur, S1)
             /\ (handles[h].data # handles[g].data =>
                    /\ S1.c[handles[g].data].refs = ctrl[handles[g].data].refs + 1
                    /\ S1.c[handles[h].data].refs = ctrl[handles[h].data].refs - 1)

\* C12 (as stated): v2 = v between two views of one type and equal extents,
\* which the asserts of operator= accept, leaves v2 on its buffer with its
\* offset, stride or leading dimension, and extents, and, where both
\* buffers are allocated, stores v's element at each of v2's own positions.
C12_ViewAssignElementwise ==
    \A h \in Views, g \in Views :
       (/\ h # g /\ Kind(h) = Kind(g)
        /\ SameExtents(handles[h], handles[g])
        /\ AssignOk(handles[h], handles[g])) =>
          LET S1 == copy_assign(Cur, h, g)
          IN /\ S1.h[h] = handles[h]
             /\ DataPtr(S1, S1.h[h]) = DataPtr(Cur, handles[h])
             /\ (Valid(Cur, handles[h]) /\ Valid(Cur, handles[g])) =>
                    \A x \in Idx(handles[h]) :
                       Load(S1, Cell(Cur, handles[h], x[1], x[2]))
                          = At(Cur, handles[g], x)

\* two views of one type on two buffers that the assignment accepts, the
\* one with an element 0 where the other has a 1: the assignment of the
\* other to the one rebinds it, so that it reads the 1, and the buffer it
\* leaves is released with nothing stored in it
C12_Witness ==
    \E h \in Views, g \in Views :
       /\ Kind(h) = Kind(g) /\ SameExtents(handles[h], handles[g])
       /\ AssignOk(handles[h], handles[g])
       /\ DataPtr(Cur, handles[h])[1] # DataPtr(Cur, handles[g])[1]
       /\ \E x \in Idx(handles[h]) :
             /\ At(Cur, handles[h], x) = 0 /\ At(Cur, handles[g], x) = 1
             /\ At(copy_assign(Cur, h, g), copy_assign(Cur, h, g).h[h], x) = 1
       /\ copy_assign(Cur, h, g).h[h].data = handles[g].data
       /\ copy_assign(Cur, h, g).m[DataPtr(Cur, handles[h])[1]].state # "live"

----------------------------------------------------------------------------
(* C13 *)

\* the two views have one type and the same extents, stride or leading
\* dimension, and offset
SameLayout(hd, gd) == [hd EXCEPT !.data = 0] = [gd EXCEPT !.data = 0]

\* the allocation the object points into
Buffer(S, hd) == DataPtr(S, hd)[1]

\* C13: for two views v2 and v of one type with the same extents, stride
\* or leading dimension, and offset, on two different buffers, after
\* v2 = v and after v2 = std::move(v): v2.data() is v.data() as it was
\* before, v.data() is unchanged and, where v's buffer is allocated, v2
\* has at every index the element of v, in the same storage cell as v.
C13_ViewAssignShares ==
    \A h \in Views, g \in Views :
       (/\ SameLayout(handles[h], handles[g])
        /\ Buffer(Cur, handles[h]) # Buffer(Cur, handles[g])) =>
          \A S1 \in {copy_assign(Cur, h, g), move_assign(Cur, h, g)} :
             /\ DataPtr(S1, S1.h[h]) = DataPtr(Cur, handles[g])
             /\ DataPtr(S1, S1.h[g]) = DataPtr(Cur, handles[g])
             /\ Valid(Cur, handles[g]) =>
                    /\ Values(S1, S1.h[h]) = Values(Cur, handles[g])
                    /\ Values(S1, S1.h[g]) = Values(Cur, handles[g])
                    /\ \A x \in Idx(handles[g]) :
                          SameCell(S1, S1.h[h], x, S1.h[g], x)

\* two matrixviews of the same layout on two allocated buffers, with a
\* positive offset, whose elements differ somewhere: after the move
\* assignment the one reads the element of the other there
C13_Witness ==
    \E h \in OfKind("matrixview"), g \in OfKind("matrixview") :
       /\ SameLayout(handles[h], handles[g])
       /\ Buffer(Cur, handles[h]) # Buffer(Cur, handles[g])
       /\ Valid(Cur, handles[h]) /\ Valid(Cur, handles[g])
       /\ handles[g].offset > 0
       /\ \E x \in Idx(handles[g]) :
             /\ At(Cur, handles[h], x) # At(Cur, handles[g], x)
             /\ At(move_assign(Cur, h, g), move_assign(Cur, h, g).h[h], x)
                   = At(Cur, handles[g], x)

----------------------------------------------------------------------------
(* C14 *)

\* A.subvector(start, end, stride) for A of either type
subvector(S, h, g, start, end, stride) ==
    IF S.h[g].kind = "vector" THEN vector_subvector(S, h, g, start, end, stride)
    ELSE vectorview_subvector(S, h, g, start, end, stride)

\* the least integer that is at least a / b, for b > 0
CeilDiv(a, b) == (a + b - 1) \div b

Sequences1D == OfKind("vector") \cup OfKind("vectorview")

\* C14: for a vector or vectorview and every (start, end, stride) that
\* subvector accepts, the length of subvector(start, end, stride) is the
\* ceiling of (end - start) / stride: the number of the indices start,
\* start + stride, ... that are below end.
C14_SubvectorLength ==
    \A g \in Sequences1D :
    \A start \in 0..MaxLen, end \in 0..MaxLen, stride \in 1..MaxStride :
       SubvectorOk(handles[g], start, end, stride) =>
          LET V == subvector(Cur, Param, g, start, end, stride).h[Param]
          IN /\ V.n = CeilDiv(end - start, stride)
             /\ V.n = Cardinality({k \in 0..MaxLen : start + k * stride < end})

----------------------------------------------------------------------------
(* C15 *)

\* C15: for a vectorview V with offset o and stride s and every (start,
\* end, stride) that subvector accepts, W = V.subvector(start, end, stride)
\* holds V's control block (data() is equal, one owner more), has
\* offset o + start * s and stride s * stride, and changes no buffer; for
\* every k below W.size(), W[k] is the element o + (start + k * stride) * s
\* of the buffer and, where the buffer is allocated, the storage cell of
\* V[start + k * stride].
C15_SliceOfSlice ==
    \A g \in OfKind("vectorview") :
    \A start \in 0..MaxLen, end \in 0..MaxLen, stride \in 1..MaxStride :
       SubvectorOk(handles[g], start, end, stride) =>
          LET V == handles[g]
              S1 == subvector(Cur, Param, g, start, end, stride)
              W == S1.h[Param]
          IN /\ W.kind = "vectorview"
             /\ W.data = V.data
             /\ S1.c[V.data].refs = ctrl[V.data].refs + 1
             /\ DataPtr(S1, W) = DataPtr(Cur, V)
             /\ W.offset = V.offset + start * V.stride
             /\ W.stride = V.stride * stride
             /\ S1.h[g] = V /\ S1.m = heap
             /\ \A k \in 0..(W.n - 1) :
                   /\ Cell(S1, W, k, 0) =
                         <<Buffer(Cur, V),
                           DataPtr(Cur, V)[2]
                              + V.offset + (start + k * stride) * V.stride>>
                   /\ Valid(Cur, V) =>
                         SameCell(S1, W, <<k, 0>>, V, <<start + k * stride, 0>>)

\* a vectorview with stride 2 and at least two elements, the first 0 and
\* the second 1, with a 0 in the buffer between them: its subvector from
\* index 1 reads the 1
C15_Witness ==
    \E g \in OfKind("vectorview") :
       /\ handles[g].stride = 2 /\ handles[g].n >= 2
       /\ Valid(Cur, handles[g])
       /\ At(Cur, handles[g], <<0, 0>>) = 0 /\ At(Cur, handles[g], <<1, 0>>) = 1
       /\ Load(Cur, <<Buffer(Cur, handles[g]),
                      DataPtr(Cur, handles[g])[2] + handles[g].offset + 1>>) = 0
       /\ LET S1 == subvector(Cur, Param, g, 1, 2, 1)
          IN S1.h[Param].n = 1 /\ At(S1, S1.h[Param], <<0, 0>>) = 1

----------------------------------------------------------------------------
(* C16 *)

\* offset() and ldim() of a matrix or matrixview: a matrix starts at the
\* first element of its buffer and its leading dimension is its number of
\* rows
OffsetOf(hd) == IF hd.kind = "matrix" THEN 0 ELSE hd.offset
LdimOf(hd) == IF hd.kind = "matrix" THEN hd.m ELSE hd.ldim

\* C16: for a matrix or matrixview A with offset o and leading dimension
\* ld (o = 0 and ld = A.num_rows() for a matrix) and every (i1, i2, j1, j2)
\* that submatrix accepts, A.submatrix(i1, i2, j1, j2) is a matrixview on
\* A's control block with i2 - i1 rows, j2 - j1 columns, leading
\* dimension ld and offset o + i1 + j1 * ld; A and the buffers are
\* unchanged, and the element (0, 0) of the result is the buffer element
\* of A(i1, j1).
C16_SubmatrixFields ==
    \A g \in Grids :
    \A i1 \in 0..MaxDim, i2 \in 0..MaxDim, j1 \in 0..MaxDim, j2 \in 0..MaxDim :
       SubmatrixOk(handles[g], i1, i2, j1, j2) =>
          LET A == handles[g]
              S1 == submatrix(Cur, Param, g, i1, i2, j1, j2)
              W == S1.h[Param]
          IN /\ W.kind = "matrixview"
             /\ W.data = A.data
             /\ S1.c[A.data].refs = ctrl[A.data].refs + 1
             /\ W.m = i2 - i1 /\ W.n = j2 - j1
             /\ W.ldim = LdimOf(A)
             /\ W.offset = OffsetOf(A) + i1 + j1 * LdimOf(A)
             /\ S1.h[g] = A /\ S1.m = heap
             /\ Cell(S1, W, 0, 0) = Cell(Cur, A, i1, j1)

\* a matrixview with a positive offset and two columns, with a 0 at (0, 0)
\* and a 1 at (0, 1): its submatrix of the second column starts one leading
\* dimension further in the buffer and reads the 1
C16_Witness ==
    \E g \in OfKind("matrixview") :
       /\ handles[g].offset > 0 /\ handles[g].n = 2
       /\ Valid(Cur, handles[g])
       /\ At(Cur, handles[g], <<0, 0>>) = 0 /\ At(Cur, handles[g], <<0, 1>>) = 1
       /\ LET S1 == submatrix(Cur, Param, g, 0, 1, 1, 2)
          IN /\ S1.h[Param].offset = handles[g].offset + handles[g].ldim
             /\ At(S1, S1.h[Param], <<0, 0>>) = 1

----------------------------------------------------------------------------
(* C17 *)

\* C17: for a matrix or matrixview A of m rows and n columns with offset o
\* and leading dimension ld, A.row(i) for i in 0..m-1 is a vectorview that
\* holds A's control block, with length n, stride ld and offset o + i, and
\* A.column(j) for j in 0..n-1 is one with length m, stride 1 and offset
\* o + j * ld.
C17_RowColumnFields ==
    \A g \in Grids :
       LET A == handles[g]
       IN /\ \A i \in 0..(A.m - 1) :
                LET R == row(Cur, Param, g, i).h[Param]
                IN /\ R.kind = "vectorview"
                   /\ R.data = A.data
                   /\ R.n = A.n /\ R.stride = LdimOf(A)
                   /\ R.offset = OffsetOf(A) + i
          /\ \A j \in 0..(A.n - 1) :
                LET C == column(Cur, Param, g, j).h[Param]
                IN /\ C.kind = "vectorview"
                   /\ C.data = A.data
                   /\ C.n = A.m /\ C.stride = 1
                   /\ C.offset = OffsetOf(A) + j * LdimOf(A)

----------------------------------------------------------------------------
(* C18 *)

\* the views that lie in the buffer of the unique_ptr u
ViewsOver(u) ==
    {v \in Views : Buffer(Cur, handles[v]) = Buffer(Cur, handles[u])}

\* C18: the buffer of a unique_ptr is allocated for as long as the
\* unique_ptr lives, whatever happened to the views constructed over its
\* raw pointer: it is allocated now, it is still allocated after the
\* destruction of a view over it, of a copy of such a view and of a
\* subvector of such a view, and the delete[] that the destructor of the
\* unique_ptr runs is the one delete[] of the buffer, a defined one.
C18_ExternalNeverFreed ==
    \A u \in OfKind("unique") :
       /\ Valid(Cur, handles[u])
       /\ Destruct(Cur, u).ub = "none"
       /\ \A v \in ViewsOver(u) :
             /\ Valid(Destruct(Cur, v), handles[u])
             /\ Valid(Destruct(copy_construct(Cur, Param, v), Param), handles[u])
             /\ Valid(DestructAll(copy_construct(Cur, Param, v), {v, Param}),
                      handles[u])
             /\ \A start \in 0..MaxLen, end \in 0..MaxLen :
                   SubvectorOk(handles[v], start, end, 1) =>
                      Valid(Destruct(subvector(Cur, Param, v, start, end, 1),
                                     Param), handles[u])

----------------------------------------------------------------------------
(* C19 *)

\* the asserts of operator[](i) and operator()(i, j) of hd's type; those of
\* matrix check i < _m and j < _n only
AccessOk(hd, i, j) ==
    CASE hd.kind = "vector" -> i < hd.n /\ i >= 0
      [] hd.kind = "vectorview" -> i < hd.n /\ i >= 0
      [] hd.kind = "matrix" -> i < hd.m /\ j < hd.n
      [] hd.kind = "matrixview" -> i < hd.m /\ i >= 0 /\ j < hd.n /\ j >= 0

\* v[i], m(i, j) in a build with asserts: the failed assert, or the element
\* of the buffer that the reference returned is bound to
element_access(S, hd, i, j) ==
    IF AccessOk(hd, i, j)
    THEN [outcome |-> "element", cell |-> Cell(S, hd, i, j)]
    ELSE [outcome |-> "assert", cell |-> <<0, 0>>]

\* the indices an access can be given: v[i] for a vector or vectorview,
\* m(i, j) for a matrix or matrixview, one below and one above the extents
\* included
Tried(hd) ==
    IF Is1D(hd) THEN ((0 - 1)..MaxLen) \X {0}
    ELSE ((0 - 1)..MaxDim) \X ((0 - 1)..MaxDim)

\* C19: on a vector, vectorview, matrix and matrixview alike, an access at
\* an index within the extents yields the element of that index, and an
\* access at any other index, a negative one included, fails its assert
\* and is bound to no element of the buffer.
C19_BoundsChecked ==
    \A h \in Owners \cup Views :
    \A x \in Tried(handles[h]) :
       LET r == element_access(Cur, handles[h], x[1], x[2])
       IN IF x \in Idx(handles[h])
          THEN r.outcome = "element"
               /\ r.cell = Cell(Cur, handles[h], x[1], x[2])
          ELSE r.outcome = "assert"

----------------------------------------------------------------------------
(* C20 *)

\* the asserts of row(i) and of column(i)
RowOk(hd, i) == i >= 0 /\ i < hd.m
ColumnOk(hd, i) == i >= 0 /\ i < hd.n

\* a slicing call in a build with asserts: where an assert fails the program
\* stops there, with no view constructed and nothing changed
asserted_subvector(S, h, g, start, end, stride) ==
    IF SubvectorOk(S.h[g], start, end, stride)
    THEN [failed |-> FALSE, S |-> subvector(S, h, g, start, end, stride)]
    ELSE [failed |-> TRUE, S |-> S]

asserted_submatrix(S, h, g, i1, i2, j1, j2) ==
    IF SubmatrixOk(S.h[g], i1, i2, j1, j2)
    THEN [failed |-> FALSE, S |-> submatrix(S, h, g, i1, i2, j1, j2)]
    ELSE [failed |-> TRUE, S |-> S]

asserted_row(S, h, g, i) ==
    IF RowOk(S.h[g], i) THEN [failed |-> FALSE, S |-> row(S, h, g, i)]
    ELSE [failed |-> TRUE, S |-> S]

asserted_column(S, h, g, i) ==
    IF ColumnOk(S.h[g], i) THEN [failed |-> FALSE, S |-> column(S, h, g, i)]
    ELSE [failed |-> TRUE, S |-> S]

\* the call r failed where it is made: no view exists and no object, control
\* block or buffer differs from before
FailedAtOnce(r) == r.failed /\ r.S.h[Param] = NoHandle /\ r.S = Cur

\* the call r returned a view of the kind k and left the source g and the
\* buffers as they were
Returned(r, g, k) ==
    /\ ~r.failed /\ r.S.h[Param].kind = k
    /\ r.S.h[g] = handles[g] /\ r.S.m = heap

\* the parameters tried: one below 0 and, for an object smaller than the
\* bound, above its extents
TriedLen == (0 - 1)..MaxLen
TriedDim == (0 - 1)..MaxDim
TriedStride == (0 - 1)..MaxStride

\* C20: on a vector or vectorview of length n, subvector(start, end,
\* stride) with start < 0, end > n, start >= end or stride <= 0 fails at
\* the call; on a matrix or matrixview of m rows and n columns,
\* submatrix(i1, i2, j1, j2) with i1 < 0, i2 > m, j1 < 0, j2 > n, i1 >= i2
\* or j1 >= j2 fails at the call, and so do row(i) with i outside 0..m-1
\* and column(j) with j outside 0..n-1: no view is constructed and no
\* object, control block or buffer changes. With any other parameters the
\* call returns a view and leaves the source and the buffers unchanged.
C20_InvalidSliceFails ==
    /\ \A g \in Sequences1D :
       \A start \in TriedLen, end \in TriedLen, stride \in TriedStride :
          LET r == asserted_subvector(Cur, Param, g, start, end, stride)
          IN IF start < 0 \/ end > handles[g].n \/ start >= end \/ stride <= 0
             THEN FailedAtOnce(r) ELSE Returned(r, g, "vectorview")
    /\ \A g \in Grids :
       \A i1 \in TriedDim, i2 \in TriedDim, j1 \in TriedDim, j2 \in TriedDim :
          LET r == asserted_submatrix(Cur, Param, g, i1, i2, j1, j2)
          IN IF \/ i1 < 0 \/ i2 > handles[g].m \/ j1 < 0 \/ j2 > handles[g].n
                \/ i1 >= i2 \/ j1 >= j2
             THEN FailedAtOnce(r) ELSE Returned(r, g, "matrixview")
    /\ \A g \in Grids : \A i \in TriedDim :
          /\ LET r == asserted_row(Cur, Param, g, i)
             IN IF i \in 0..(handles[g].m - 1)
                THEN Returned(r, g, "vectorview") ELSE FailedAtOnce(r)
          /\ LET r == asserted_column(Cur, Param, g, i)
             IN IF i \in 0..(handles[g].n - 1)
                THEN Returned(r, g, "vectorview") ELSE FailedAtOnce(r)

\* a matrixview of 1 row and 2 columns: a submatrix of two rows, and
\* row(1), fail, while the submatrix of its second column and column(1)
\* are returned
C20_Witness ==
    \E g \in OfKind("matrixview") :
       /\ handles[g].m = 1 /\ handles[g].n = 2
       /\ asserted_submatrix(Cur, Param, g, 0, 2, 0, 1).failed
       /\ asserted_row(Cur, Param, g, 1).failed
       /\ asserted_submatrix(Cur, Param, g, 0, 1, 1, 2).S.h[Param].kind
             = "matrixview"
       /\ asserted_column(Cur, Param, g, 1).S.h[Param].kind = "vectorview"

----------------------------------------------------------------------------
(* C21 *)

\* h = g for a vector or matrix h and a source g of either type of h's rank
owner_assign(S, h, g) ==
    IF S.h[h].kind = "vector" THEN vector_assign(S, h, g)
    ELSE matrix_assign(S, h, g)

\* h = g in a build with asserts: where an assert fails the program stops
\* there, before the first element is stored
asserted_assign(S, h, g) ==
    IF AssignOk(S.h[h], S.h[g])
    THEN [failed |-> FALSE, S |-> owner_assign(S, h, g)]
    ELSE [failed |-> TRUE, S |-> S]

\* the objects a vector or matrix h can be assigned from: those of its rank
Sources(h) ==
    {g \in Owners \cup Views : Is1D(handles[g]) = Is1D(handles[h])}

\* C21: h = g for a vector or matrix h and a vector, vectorview, matrix or
\* matrixview g of h's rank whose extents differ from those of h fails its
\* assert: no object, control block or buffer changes, so h keeps its
\* extents, data() and elements. With equal extents the assignment is
\* carried out, and it too leaves every object, control block and
\* allocation in place.
C21_AssignShapeMismatch ==
    \A h \in Owners : \A g \in Sources(h) :
       LET r == asserted_assign(Cur, h, g)
       IN IF SameExtents(handles[h], handles[g])
          THEN /\ ~r.failed
               /\ r.S.h = handles /\ r.S.c = ctrl /\ SameAllocations(Cur, r.S)
          ELSE /\ r.failed
               /\ r.S.h[h] = handles[h]
               /\ DataPtr(r.S, r.S.h[h]) = DataPtr(Cur, handles[h])
               /\ r.S = Cur

\* a matrix of 1 row and 2 columns and a matrix or matrixview of 2 rows
\* and 1 column, with different elements: the assignment of the one to
\* the other fails and the elements stay
C21_Witness ==
    \E h \in OfKind("matrix"), g \in Grids :
       /\ handles[h].m = 1 /\ handles[h].n = 2
       /\ handles[g].m = 2 /\ handles[g].n = 1
       /\ Valid(Cur, handles[h]) /\ Valid(Cur, handles[g])
       /\ At(Cur, handles[h], <<0, 0>>) = 0 /\ At(Cur, handles[g], <<0, 0>>) = 1
       /\ asserted_assign(Cur, h, g).failed
       /\ At(asserted_assign(Cur, h, g).S, handles[h], <<0, 0>>) = 0

----------------------------------------------------------------------------
(* C22 *)

\* new T[k]: a negative k throws std::bad_array_new_length, and k = 0 is
\* an allocation of no elements
new_array_ok(k) == k >= 0

\* vector<T> v(n, value) for any int n: the constructor has no assert
constructed_vector(S, h, n, value) ==
    IF new_array_ok(n) THEN [failed |-> FALSE, S |-> vector_fill(S, h, n, value)]
    ELSE [failed |-> TRUE, S |-> S]

\* matrix<T> A(m, n) for any int m, n, with value in the elements of the
\* allocation new T[_m * _n]
constructed_matrix(S, h, m, n, value) ==
    IF new_array_ok(m * n)
    THEN [failed |-> FALSE,
          S |-> matrix_ctor(S, h, m, n, [i \in 1..(m * n) |-> value])]
    ELSE [failed |-> TRUE, S |-> S]

\* C22: the construction of a vector of length n <= 0, and of a matrix of m
\* rows and n columns with m <= 0 or n <= 0, fails and allocates no
\* buffer; with positive extents it succeeds.
C22_PositiveExtents ==
    CanNew(Cur) =>
       /\ \A n \in (0 - 1)..MaxLen :
             LET r == constructed_vector(Cur, Param, n, 0)
             IN IF n <= 0 THEN r.failed /\ r.S.m = heap /\ r.S.h = handles
                ELSE ~r.failed /\ r.S.h[Param].n = n
       /\ \A m \in (0 - 1)..MaxDim, n \in (0 - 1)..MaxDim :
             LET r == constructed_matrix(Cur, Param, m, n, 0)
             IN IF m <= 0 \/ n <= 0
                THEN r.failed /\ r.S.m = heap /\ r.S.h = handles
                ELSE ~r.failed /\ r.S.h[Param].m = m /\ r.S.h[Param].n = n

----------------------------------------------------------------------------
(* C23 *)

\* the step constructs the vector or matrix h by a move from g, or moves g
\* into the existing h
MovedFrom(h, g) ==
    /\ IsOwner(handles[g])
    /\ \/ HasSlot /\ h = NewSlot(Cur) /\ Step(move_construct(Cur, h, g))
       \/ /\ handles[h].kind = handles[g].kind
          /\ AssignOk(handles[h], handles[g])
          /\ Step(move_assign(Cur, h, g))

\* h and g are two owning containers on one allocation
OwnersShare(hs, cs, h, g) ==
    /\ h # g /\ IsOwner(hs[h]) /\ IsOwner(hs[g])
    /\ cs[hs[h].data].alloc = cs[hs[g].data].alloc

\* the vector or matrix in slot h of S shares its buffer with no other one
Unshared(S, h) == \A x \in Slots : ~OwnersShare(S.h, S.c, h, x)

\* the owning containers the program can construct next other than by a
\* move: with a length or extents, with a value, by copy, and from a view
NotByMove ==
    {vector_ctor(Cur, Param, Fresh(n)) : n \in Lens}
       \cup {vector_fill(Cur, Param, n, 0) : n \in Lens}
       \cup {matrix_ctor(Cur, Param, e[1], e[2], Fresh(e[1] * e[2])) : e \in Shapes}
       \cup {copy_construct(Cur, Param, g) : g \in Owners}
       \cup {convert_construct(Cur, Param, g) : g \in Views}

----------------------------------------------------------------------------
(* C24 *)

\* size(), or num_rows() and num_columns(), of the object
Extents(hd) == IF Is1D(hd) THEN <<hd.n>> ELSE <<hd.m, hd.n>>

\* C24: in every state, a vector constructed with length n has size() n, a
\* matrix constructed with m rows and n columns has num_rows() m and
\* num_columns() n, and a matrixview constructed with (m, n, ldim, offset)
\* reports these four; and in every step of the program (a write, a copy
\* or move assignment, a slice, or any other operation) a vector or matrix
\* that is not destroyed keeps its type and its extents.
C24_ExtentsPreserved ==
    /\ [](CanNew(Cur) =>
            /\ \A n \in Lens :
                  /\ Extents(vector_ctor(Cur, Param, Fresh(n)).h[Param]) = <<n>>
                  /\ Extents(vector_fill(Cur, Param, n, 0).h[Param]) = <<n>>
            /\ \A e \in Shapes :
                  Extents(matrix_ctor(Cur, Param, e[1], e[2],
                                      Fresh(e[1] * e[2])).h[Param]) = e
            /\ \A e \in Shapes, ldim \in 1..MaxDim, offset \in 0..MaxDim :
                  ldim >= e[1] =>
                     LET V == matrixview_over(Cur, Param,
                                 Fresh(offset + ldim * e[2]),
                                 e[1], e[2], ldim, offset).h[Param]
                     IN Extents(V) = e /\ V.ldim = ldim /\ V.offset = offset)
    /\ [][\A h \in Handles :
             (IsOwner(handles[h]) /\ handles'[h].kind # "none") =>
                /\ handles'[h].kind = handles[h].kind
                /\ Extents(handles'[h]) = Extents(handles[h])]_vars

\* a matrix of 1 row and 2 columns that was written to (it holds a 0 and
\* a 1) and shares its control block with another object, as a slice or a
\* move leaves it
C24_Witness ==
    \E h \in OfKind("matrix") :
       /\ Extents(handles[h]) = <<1, 2>>
       /\ ctrl[handles[h].data].refs = 2
       /\ At(Cur, handles[h], <<0, 0>>) = 0 /\ At(Cur, handles[h], <<0, 1>>) = 1

----------------------------------------------------------------------------
(* C25 *)

\* the number of elements of the allocation _data points into
Capacity(S, hd) == Len(S.m[S.c[hd.data].alloc].cells)

\* the element of that allocation index x of hd maps to
Position(S, hd, x) == Cell(S, hd, x[1], x[2])[2]

\* C25: in every state of every program that makes its views from vectors
\* and matrices by subvector, submatrix, row, column, conversion and view
\* copy, every index in range of every view maps to an element of the
\* buffer the view points into, 0 <= position < capacity, and a matrixview
\* has ldim >= num_rows.
C25_ViewsInBounds ==
    \A h \in Views :
       /\ \A x \in Idx(handles[h]) :
             /\ 0 <= Position(Cur, handles[h], x)
             /\ Position(Cur, handles[h], x) < Capacity(Cur, handles[h])
       /\ Kind(h) = "matrixview" => handles[h].ldim >= handles[h].m

\* a view of two elements with stride 2 that does not start at the start
\* of the buffer and whose last element is the last of the buffer
C25_Witness ==
    \E h \in OfKind("vectorview") :
       /\ handles[h].n = 2 /\ handles[h].stride = 2
       /\ Valid(Cur, handles[h])
       /\ Position(Cur, handles[h], <<0, 0>>) = 1
       /\ Position(Cur, handles[h], <<1, 0>>) = Capacity(Cur, handles[h]) - 1

----------------------------------------------------------------------------
(* vector_operations.hpp  (T = int, the scalar of the element type, as in  *)
(* test_vector_operations.cpp; the values stay far from the limits of int) *)

\* v1[i] + v2[i], v1[i] - v2[i], v[i] * scalar
Apply(op, x, y) ==
    CASE op = "+" -> x + y
      [] op = "-" -> x - y
      [] op = "*" -> x * y

\* for (int i = 0; i < v1.size(); ++i) result[i] = v1[i] op v2[i];
\* with result = v1 it is v1[i] op= v2[i]
RECURSIVE BinaryLoop(_, _, _, _, _, _)
BinaryLoop(S, result, v1, v2, op, i) ==
    IF i >= v1.n THEN S
    ELSE BinaryLoop(Put(S, result, i, 0,
                        Apply(op, Get(S, v1, i, 0), Get(S, v2, i, 0))),
                    result, v1, v2, op, i + 1)

\* for (int i = 0; i < v.size(); ++i) result[i] = v[i] * scalar;
RECURSIVE ScaleLoop(_, _, _, _, _)
ScaleLoop(S, result, v, scalar, i) ==
    IF i >= v.n THEN S
    ELSE ScaleLoop(Put(S, result, i, 0, Apply("*", Get(S, v, i, 0), scalar)),
                   result, v, scalar, i + 1)

\* vector<...> result(n); and the loop that fills it
Returned_vector(S, h, n) == vector_ctor(S, h, Fresh(n))

\* assert(v1.size() == v2.size())
SizeOk(v1, v2) == v1.n = v2.n

\* operator+(const V1& v1, const V2& v2): the result is the object h
operator_plus(S, h, v1, v2) ==
    LET S1 == Returned_vector(S, h, S.h[v1].n)
    IN BinaryLoop(S1, S1.h[h], S.h[v1], S.h[v2], "+", 0)

\* operator+=(V1& v1, const V2& v2)
operator_plus_assign(S, v1, v2) ==
    BinaryLoop(S, S.h[v1], S.h[v1], S.h[v2], "+", 0)

\* add(const V1& v1, const V2& v2, V3& result)
add(S, v1, v2, result) ==
    BinaryLoop(S, S.h[result], S.h[v1], S.h[v2], "+", 0)

\* operator-(const V1& v1, const V2& v2)
operator_minus(S, h, v1, v2) ==
    LET S1 == Returned_vector(S, h, S.h[v1].n)
    IN BinaryLoop(S1, S1.h[h], S.h[v1], S.h[v2], "-", 0)

\* a subtraction that takes the operands in the other order
operator_minus_assign_reversed(S, v1, v2) ==
    BinaryLoop(S, S.h[v1], S.h[v2], S.h[v1], "-", 0)

\* operator-=(V1& v1, const V2& v2)
operator_minus_assign(S, v1, v2) ==
    BinaryLoop(S, S.h[v1], S.h[v1], S.h[v2], "-", 0)

\* sub(const V1& v1, const V2& v2, V3& result)
sub(S, v1, v2, result) ==
    BinaryLoop(S, S.h[result], S.h[v1], S.h[v2], "-", 0)

\* operator*(const V1& v, T scalar) and operator*(T scalar, const V1& v)
operator_times(S, h, v, scalar) ==
    LET S1 == Returned_vector(S, h, S.h[v].n)
    IN ScaleLoop(S1, S1.h[h], S.h[v], scalar, 0)

\* operator*=(V1& v, T scalar)
operator_times_assign(S, v, scalar) ==
    ScaleLoop(S, S.h[v], S.h[v], scalar, 0)

\* multiply(const V1& v, T scalar, V2& result)
multiply(S, v, scalar, result) ==
    ScaleLoop(S, S.h[result], S.h[v], scalar, 0)

\* dot(const V1& v1, const V2& v2): result = 0; result += v1[i] * v2[i]
RECURSIVE DotLoop(_, _, _, _, _)
DotLoop(S, v1, v2, i, result) ==
    IF i >= v1.n THEN result
    ELSE DotLoop(S, v1, v2, i + 1,
                 result + Get(S, v1, i, 0) * Get(S, v2, i, 0))

\* a dot product over data(), which takes the elements of its arguments to
\* be neighbours in storage
RECURSIVE DotLoop_data(_, _, _, _, _)
DotLoop_data(S, v1, v2, i, result) ==
    IF i >= v1.n THEN result
    ELSE DotLoop_data(S, v1, v2, i + 1,
            result + Load(S, <<S.c[v1.data].alloc,
                               S.c[v1.data].off + Index_contiguous(v1, i, 0)>>)
                   * Load(S, <<S.c[v2.data].alloc,
                               S.c[v2.data].off + Index_contiguous(v2, i, 0)>>))

dot_data(S, v1, v2) == DotLoop_data(S, S.h[v1], S.h[v2], 0, 0)

dot(S, v1, v2) == DotLoop(S, S.h[v1], S.h[v2], 0, 0)

----------------------------------------------------------------------------
(* matrix_operations.hpp                                                   *)

\* for (int k = 0; k < A.num_columns(); ++k) result(i, j) += A(i, k) * B(k, j);
\* B and result are matrices, or vectors with j = 0
RECURSIVE InnerLoop(_, _, _, _, _, _, _)
InnerLoop(S, result, A, B, i, j, k) ==
    IF k >= A.n THEN S
    ELSE InnerLoop(Put(S, result, i, j,
                       Get(S, result, i, j) + Get(S, A, i, k) * Get(S, B, k, j)),
                   result, A, B, i, j, k + 1)

\* a product that adds to what result(i, j) holds
RECURSIVE ProductLoop_no_reset(_, _, _, _, _)
ProductLoop_no_reset(S, result, A, B, order) ==
    IF order = <<>> THEN S
    ELSE ProductLoop_no_reset(
            InnerLoop(S, result, A, B, Head(order)[1], Head(order)[2], 0),
            result, A, B, Tail(order))

\* for (i) for (j) { result(i, j) = 0; for (k) ... }
RECURSIVE ProductLoop(_, _, _, _, _)
ProductLoop(S, result, A, B, order) ==
    IF order = <<>> THEN S
    ELSE ProductLoop(
            InnerLoop(Put(S, result, Head(order)[1], Head(order)[2], 0),
                      result, A, B, Head(order)[1], Head(order)[2], 0),
            result, A, B, Tail(order))

\* for (i) for (j) result(j, i) = A(i, j);
RECURSIVE TransposeLoop(_, _, _, _)
TransposeLoop(S, result, A, order) ==
    IF order = <<>> THEN S
    ELSE TransposeLoop(Put(S, result, Head(order)[2], Head(order)[1],
                           Get(S, A, Head(order)[1], Head(order)[2])),
                       result, A, Tail(order))

\* assert(A.num_columns() == v.size()), assert(A.num_columns() == B.num_rows())
ProductOk(A, B) == A.n = Rows(B)

\* the further asserts of multiply(A, v, result) and multiply(A, B, result)
ResultOk(A, B, result) ==
    /\ Is1D(result) = Is1D(B)
    /\ A.m = Rows(result) /\ Cols(B) = Cols(result)

\* operator*(const M& A, const V& v): the result is the object h
operator_times_mv(S, h, A, v) ==
    LET S1 == Returned_vector(S, h, S.h[A].m)
    IN ProductLoop(S1, S1.h[h], S.h[A], S.h[v], RowMajor(S.h[A].m, 1))

\* multiply(const M& A, const V1& v, V2& result)
multiply_mv(S, A, v, result) ==
    ProductLoop(S, S.h[result], S.h[A], S.h[v], RowMajor(S.h[A].m, 1))

\* operator*(const M1& A, const M2& B)
operator_times_mm(S, h, A, B) ==
    LET S1 == matrix_ctor(S, h, S.h[A].m, S.h[B].n, Fresh(S.h[A].m * S.h[B].n))
    IN ProductLoop(S1, S1.h[h], S.h[A], S.h[B], RowMajor(S.h[A].m, S.h[B].n))

\* multiply(const M1& A, const M2& B, M3& result)
multiply_mm(S, A, B, result) ==
    ProductLoop(S, S.h[result], S.h[A], S.h[B], RowMajor(S.h[A].m, S.h[B].n))

\* transpose(const M& A): the result is the object h
transpose(S, h, A) ==
    LET S1 == matrix_ctor(S, h, S.h[A].n, S.h[A].m, Fresh(S.h[A].m * S.h[A].n))
    IN TransposeLoop(S1, S1.h[h], S.h[A], RowMajor(S.h[A].m, S.h[A].n))

\* transpose(const M1& A, M2& result)
transpose_into(S, A, result) ==
    TransposeLoop(S, S.h[result], S.h[A], RowMajor(S.h[A].m, S.h[A].n))

\* assert(A.num_rows() == result.num_columns());
\* assert(A.num_columns() == result.num_rows());
TransposeOk(A, result) == A.m = result.n /\ A.n = result.m

\* A * B for a matrix A: the overload for a vector B or for a matrix B
operator_times_m(S, h, A, B) ==
    IF Is1D(S.h[B]) THEN operator_times_mv(S, h, A, B)
    ELSE operator_times_mm(S, h, A, B)

----------------------------------------------------------------------------
(* C26 *)

\* every element of the object has been given a value
Determinate(S, hd) == Valid(S, hd) /\ \A x \in Idx(hd) : At(S, hd, x) \in Val

\* the program in which a vector or matrix constructed from the view g, of
\* the same extents and values, is the object g; the view lives on elsewhere
AsOwner(S, g) ==
    LET T == convert_construct(S, Param, g)
    IN [T EXCEPT !.h[g] = T.h[Param], !.h[Param] = NoHandle]

\* two more allocations can be made
Room(S) == Cardinality(FreeCtrls(S)) >= 2 /\ Cardinality(FreeAllocs(S)) >= 2

\* the object a routine returned in h: its type, extents and elements
Result(S, h) == <<S.h[h].kind, Extents(S.h[h]), Values(S, S.h[h])>>

\* the scalars tried
Scalars == (0 - 1)..(MaxVal + 1)

\* the objects that can be the other argument of a routine
Args(S) == {x \in Handles : IsObject(x) /\ Determinate(S, S.h[x])}

\* C26: for every view g whose elements have values, and V the vector or
\* matrix constructed from g (same extents, same values), every routine
\* returns the same result, index by index, with g as with V as its
\* argument, in either argument position and with any other object of fit
\* extents (g itself included) as the other argument: a + b, a - b, add and
\* sub into a new vector, a * s, dot(a, b), A * v, A * B and transpose(A).
C26_ViewAsOwner ==
    \A g \in Views :
       (Determinate(Cur, handles[g]) /\ Room(Cur)) =>
          LET V == AsOwner(Cur, g)
              Same2(f(_, _, _, _), x) ==
                 /\ Result(f(Cur, Param, g, x), Param) = Result(f(V, Param, g, x), Param)
                 /\ Result(f(Cur, Param, x, g), Param) = Result(f(V, Param, x, g), Param)
              Into(f(_, _, _, _), S, x, y) ==
                 Result(f(Returned_vector(S, Param, S.h[x].n), x, y, Param), Param)
          IN /\ Kind(g) = "vectorview" =>
                  /\ \A x \in Args(Cur) :
                        (Is1D(handles[x]) /\ SizeOk(handles[g], handles[x])) =>
                           /\ Same2(operator_plus, x)
                           /\ Same2(operator_minus, x)
                           /\ Into(add, Cur, g, x) = Into(add, V, g, x)
                           /\ Into(sub, Cur, x, g) = Into(sub, V, x, g)
                           /\ dot(Cur, g, x) = dot(V, g, x)
                           /\ dot(Cur, x, g) = dot(V, x, g)
                  /\ \A scalar \in Scalars :
                        Result(operator_times(Cur, Param, g, scalar), Param)
                           = Result(operator_times(V, Param, g, scalar), Param)
                  /\ \A A \in Args(Cur) :
                        (Is2D(handles[A]) /\ ProductOk(handles[A], handles[g])) =>
                           Result(operator_times_m(Cur, Param, A, g), Param)
                              = Result(operator_times_m(V, Param, A, g), Param)
             /\ Kind(g) = "matrixview" =>
                  /\ Result(transpose(Cur, Param, g), Param)
                        = Result(transpose(V, Param, g), Param)
                  /\ \A x \in Args(Cur) :
                        /\ ProductOk(handles[g], handles[x]) =>
                              Result(operator_times_m(Cur, Param, g, x), Param)
                                 = Result(operator_times_m(V, Param, g, x), Param)
                        /\ (Is2D(handles[x]) /\ ProductOk(handles[x], handles[g])) =>
                              Result(operator_times_m(Cur, Param, x, g), Param)
                                 = Result(operator_times_m(V, Param, x, g), Param)

\* the row (0, 1) of a matrix of 2 rows and 2 columns, a view of stride 2:
\* its dot product with itself is 1, as that of the vector made from it,
\* and the matrix times the row is the same vector for both
C26_Witness ==
    \E g \in OfKind("vectorview"), A \in OfKind("matrix") :
       /\ handles[g].n = 2 /\ handles[g].stride = 2
       /\ Determinate(Cur, handles[g]) /\ Determinate(Cur, handles[A])
       /\ Room(Cur)
       /\ Values(Cur, handles[g]) = (<<0, 0>> :> 0) @@ (<<1, 0>> :> 1)
       /\ At(Cur, handles[A], <<0, 1>>) = 0
       /\ AsOwner(Cur, g).h[g].kind = "vector"
       /\ dot(AsOwner(Cur, g), g, g) = 1 /\ dot(Cur, g, g) = 1
       /\ Result(operator_times_m(AsOwner(Cur, g), Param, A, g), Param)
             = Result(operator_times_m(Cur, Param, A, g), Param)

----------------------------------------------------------------------------
(* C27 *)

\* a routine in a build with asserts: it fails at its assert, with nothing
\* done, or runs to T
Guarded(ok, S, T) ==
    IF ok THEN [failed |-> FALSE, S |-> T] ELSE [failed |-> TRUE, S |-> S]

\* the storage cells of the object
Cells(S, hd) == {Cell(S, hd, x[1], x[2]) : x \in Idx(hd)}

\* T differs from S in elements of hd only: the objects, the control blocks
\* and every other element of every allocation are the same
ChangedOnly(S, T, hd) ==
    /\ T.h = S.h /\ T.c = S.c
    /\ \A a \in Allocs :
          /\ T.m[a].state = S.m[a].state
          /\ Len(T.m[a].cells) = Len(S.m[a].cells)
          /\ \A k \in 1..Len(S.m[a].cells) :
                <<a, k - 1>> \notin Cells(S, hd) =>
                   T.m[a].cells[k] = S.m[a].cells[k]

\* the object in Param is of type kind, on an allocation of its own that is
\* new in T, and T differs from S in this object only
NewObject(S, T, kind) ==
    /\ T.h[Param].kind = kind
    /\ S.m[T.c[T.h[Param].data].alloc].state = "none"
    /\ \A x \in Handles : T.h[x] = S.h[x]
    /\ \A c \in Ctrls : c # T.h[Param].data => T.c[c] = S.c[c]
    /\ \A a \in Allocs : a # T.c[T.h[Param].data].alloc => T.m[a] = S.m[a]

\* the elements of vector r in T are those of the function expected
Elements(T, r, expected) ==
    /\ Idx(T.h[r]) = {<<i, 0>> : i \in DOMAIN expected}
    /\ \A i \in DOMAIN expected : At(T, T.h[r], <<i, 0>>) = expected[i]

\* no element of a is another element of b: a and b are apart, or a[i] and
\* b[i] are one cell for every i (as for two vectors, which share a buffer
\* only after a move)
Unshifted(S, a, b) ==
    \A i \in 0..(a.n - 1), j \in 0..(b.n - 1) :
       Cell(S, a, i, 0) = Cell(S, b, j, 0) => i = j

\* the vectors and vectorviews whose elements have values
Sequences == {a \in Handles : IsObject(a) /\ Is1D(handles[a])
                                /\ Determinate(Cur, handles[a])}

\* C27: for vectors or views a and b whose elements have values:
\* if their lengths differ, a + b, add(a, b, d), a += b, a - b,
\* sub(a, b, d) and a -= b fail at the assert with nothing done; if they are
\* equal, a + b and a - b return a new vector c on its own allocation with
\* c[i] = a[i] + b[i] (a[i] - b[i]) and nothing else changed; add and sub
\* into a vector d apart from a and b fail if the length of d is not that
\* of a, and else give d[i] = a[i] + b[i] (a[i] - b[i]) and change d only;
\* a += b and a -= b (no element of a being another element of b) give
\* a[i] = a[i] + b[i] (a[i] - b[i]) of the old values and change elements
\* of a only.  a * s returns a new vector of a[i] * s, multiply(a, s, d)
\* fails if the length of d is not that of a and else gives d[i] = a[i] * s,
\* and a *= s gives a[i] = a[i] * s, with the same frames.
C27_Elementwise ==
    \A a \in Sequences :
       LET n == handles[a].n
           A(i) == At(Cur, handles[a], <<i, 0>>)
           Fill(k) == Returned_vector(Cur, Param, k)
       IN /\ \A b \in Sequences :
               LET B(i) == At(Cur, handles[b], <<i, 0>>)
                   ok == SizeOk(handles[a], handles[b])
                   Sum == [i \in 0..(n - 1) |-> A(i) + B(i)]
                   Diff == [i \in 0..(n - 1) |-> A(i) - B(i)]
                   plus == Guarded(ok, Cur, operator_plus(Cur, Param, a, b))
                   minus == Guarded(ok, Cur, operator_minus(Cur, Param, a, b))
                   plus_a == Guarded(ok, Cur, operator_plus_assign(Cur, a, b))
                   minus_a == Guarded(ok, Cur, operator_minus_assign(Cur, a, b))
                   add_d(k) == Guarded(ok /\ SizeOk(handles[a], Fill(k).h[Param]),
                                        Fill(k), add(Fill(k), a, b, Param))
                   sub_d(k) == Guarded(ok /\ SizeOk(handles[a], Fill(k).h[Param]),
                                        Fill(k), sub(Fill(k), a, b, Param))
               IN IF ~ok
                  THEN /\ \A r \in {plus, minus, plus_a, minus_a} :
                             r.failed /\ r.S = Cur
                       /\ \A k \in Lens :
                             /\ add_d(k).failed /\ add_d(k).S = Fill(k)
                             /\ sub_d(k).failed /\ sub_d(k).S = Fill(k)
                  ELSE /\ ~plus.failed /\ NewObject(Cur, plus.S, "vector")
                       /\ Elements(plus.S, Param, Sum)
                       /\ ~minus.failed /\ NewObject(Cur, minus.S, "vector")
                       /\ Elements(minus.S, Param, Diff)
                       /\ \A k \in Lens :
                             IF k # n
                             THEN /\ add_d(k).failed /\ add_d(k).S = Fill(k)
                                  /\ sub_d(k).failed /\ sub_d(k).S = Fill(k)
                             ELSE /\ ~add_d(k).failed
                                  /\ Elements(add_d(k).S, Param, Sum)
                                  /\ ChangedOnly(Fill(k), add_d(k).S, Fill(k).h[Param])
                                  /\ ~sub_d(k).failed
                                  /\ Elements(sub_d(k).S, Param, Diff)
                                  /\ ChangedOnly(Fill(k), sub_d(k).S, Fill(k).h[Param])
                       /\ Unshifted(Cur, handles[a], handles[b]) =>
                             /\ ~plus_a.failed /\ Elements(plus_a.S, a, Sum)
                             /\ ChangedOnly(Cur, plus_a.S, handles[a])
                             /\ ~minus_a.failed /\ Elements(minus_a.S, a, Diff)
                             /\ ChangedOnly(Cur, minus_a.S, handles[a])
          /\ \A scalar \in Scalars :
               LET Scaled == [i \in 0..(n - 1) |-> A(i) * scalar]
                   times == operator_times(Cur, Param, a, scalar)
                   times_a == operator_times_assign(Cur, a, scalar)
                   multiply_d(k) ==
                      Guarded(SizeOk(handles[a], Fill(k).h[Param]),
                               Fill(k), multiply(Fill(k), a, scalar, Param))
               IN /\ NewObject(Cur, times, "vector") /\ Elements(times, Param, Scaled)
                  /\ Elements(times_a, a, Scaled)
                  /\ ChangedOnly(Cur, times_a, handles[a])
                  /\ \A k \in Lens :
                        IF k # n
                        THEN multiply_d(k).failed /\ multiply_d(k).S = Fill(k)
                        ELSE /\ ~multiply_d(k).failed
                             /\ Elements(multiply_d(k).S, Param, Scaled)
                             /\ ChangedOnly(Fill(k), multiply_d(k).S,
                                            Fill(k).h[Param])

\* two vectors of length 2 on two buffers, a = (0, 1) and b = (1, 1):
\* a -= b makes a (-1, 0) and leaves b, and a + b is (1, 2)
C27_Witness ==
    \E a \in OfKind("vector"), b \in OfKind("vector") :
       /\ Disjoint(Cur, handles[a], handles[b])
       /\ Values(Cur, handles[a]) = (<<0, 0>> :> 0) @@ (<<1, 0>> :> 1)
       /\ Values(Cur, handles[b]) = (<<0, 0>> :> 1) @@ (<<1, 0>> :> 1)
       /\ LET T == operator_minus_assign(Cur, a, b)
          IN /\ Values(T, T.h[a]) = (<<0, 0>> :> 0 - 1) @@ (<<1, 0>> :> 0)
             /\ Values(T, T.h[b]) = Values(Cur, handles[b])
       /\ Elements(operator_plus(Cur, Param, a, b), Param, [i \in 0..1 |-> i + 1])

----------------------------------------------------------------------------
(* C28 *)

\* f[0] + ... + f[k - 1]
RECURSIVE SumOver(_, _)
SumOver(f, k) == IF k = 0 THEN 0 ELSE SumOver(f, k - 1) + f[k - 1]

\* the object a routine returned, as the program's object g
Named(S, g) == [S EXCEPT !.h[g] = S.h[Param], !.h[Param] = NoHandle]

\* the elements of object r in T are those of the function expected
Entries(T, r, expected) ==
    /\ Idx(T.h[r]) = DOMAIN expected
    /\ \A x \in DOMAIN expected : At(T, T.h[r], x) = expected[x]

\* matrix<...> result(m, n); vector<...> result(m) for the product with a vector
Returned_like(S, h, hd, m, n) ==
    IF Is1D(hd) THEN Returned_vector(S, h, m)
    ELSE matrix_ctor(S, h, m, n, Fresh(m * n))

\* multiply(A, x, result): the overload for a vector or a matrix x
multiply_m(S, A, x, result) ==
    IF Is1D(S.h[x]) THEN multiply_mv(S, A, x, result)
    ELSE multiply_mm(S, A, x, result)

\* C28: for every matrix or matrixview A (m rows, k columns) whose elements
\* have values: for every vector or view x of length k, and every matrix
\* or matrixview x of k rows and n columns, A * x returns a new vector of
\* length m (a new matrix of m rows and n columns) on its own allocation,
\* with element (i, j) the sum over l < k of A(i, l) * x(l, j), and changes
\* nothing else; multiply(A, x, d) into a new d of these extents passes its
\* asserts, gives d the same elements and changes d only.  transpose(A)
\* returns a new matrix of k rows and m columns with At(j, i) = A(i, j) and
\* changes nothing else; transpose(A, d) into a new matrix d of k rows and
\* m columns gives d these elements and changes d only; and the transpose
\* of the matrix transpose(A) returned has the extents and elements of A.
C28_Products ==
    \A A \in Grids :
       (Determinate(Cur, handles[A]) /\ Room(Cur)) =>
          LET m == handles[A].m
              k == handles[A].n
              a(i, l) == At(Cur, handles[A], <<i, l>>)
              Flipped == [y \in (0..(k - 1)) \X (0..(m - 1)) |-> a(y[2], y[1])]
              At1 == transpose(Cur, Param, A)
              d == matrix_ctor(Cur, Param, k, m, Fresh(k * m))
              At2 == Guarded(TransposeOk(handles[A], d.h[Param]),
                              d, transpose_into(d, A, Param))
              Twice == transpose(Named(At1, A), Param, A)
          IN /\ NewObject(Cur, At1, "matrix") /\ Entries(At1, Param, Flipped)
             /\ Extents(At1.h[Param]) = <<k, m>>
             /\ ~At2.failed /\ Entries(At2.S, Param, Flipped)
             /\ ChangedOnly(d, At2.S, d.h[Param])
             /\ Extents(Twice.h[Param]) = <<m, k>>
             /\ Values(Twice, Twice.h[Param]) = Values(Cur, handles[A])
             /\ \A x \in Args(Cur) :
                   ProductOk(handles[A], handles[x]) =>
                      LET n == Cols(handles[x])
                          b(l, j) == At(Cur, handles[x], <<l, j>>)
                          Product == [y \in (0..(m - 1)) \X (0..(n - 1)) |->
                                        SumOver([l \in 0..(k - 1) |->
                                                    a(y[1], l) * b(l, y[2])], k)]
                          P1 == operator_times_m(Cur, Param, A, x)
                          e == Returned_like(Cur, Param, handles[x], m, n)
                          P2 == Guarded(/\ ProductOk(handles[A], handles[x])
                                         /\ ResultOk(handles[A], handles[x],
                                                     e.h[Param]),
                                         e, multiply_m(e, A, x, Param))
                      IN /\ NewObject(Cur, P1, IF Is1D(handles[x])
                                               THEN "vector" ELSE "matrix")
                         /\ Entries(P1, Param, Product)
                         /\ ~P2.failed /\ Entries(P2.S, Param, Product)
                         /\ ChangedOnly(e, P2.S, e.h[Param])

\* a matrix A with rows (1, 1) and (0, 1): (A * A)(0, 1) is 2, the
\* transpose has At(1, 0) = 1 and At(0, 1) = 0, and with the first column
\* of A as v, (A * v)(0) is 1
C28_Witness ==
    \E A \in OfKind("matrix"), v \in OfKind("vectorview") :
       /\ Determinate(Cur, handles[A]) /\ Determinate(Cur, handles[v])
       /\ Room(Cur)
       /\ Values(Cur, handles[A]) = (<<0, 0>> :> 1) @@ (<<0, 1>> :> 1)
                                       @@ (<<1, 0>> :> 0) @@ (<<1, 1>> :> 1)
       /\ Values(Cur, handles[v]) = (<<0, 0>> :> 1) @@ (<<1, 0>> :> 0)
       /\ At(operator_times_m(Cur, Param, A, A),
             operator_times_m(Cur, Param, A, A).h[Param], <<0, 1>>) = 2
       /\ At(transpose(Cur, Param, A), transpose(Cur, Param, A).h[Param],
             <<1, 0>>) = 1
       /\ At(operator_times_m(Cur, Param, A, v),
             operator_times_m(Cur, Param, A, v).h[Param], <<0, 0>>) = 1

----------------------------------------------------------------------------
(* C29 *)

\* the element of the storage behind data() that index (i, j) maps to, as
\* the four types compute it
Mapped(hd, i, j) ==
    CASE hd.kind = "vector" -> i
      [] hd.kind = "vectorview" -> hd.offset + i * hd.stride
      [] hd.kind = "matrix" -> i + j * hd.m
      [] hd.kind = "matrixview" -> hd.offset + i + j * hd.ldim

\* the views that slicing, conversion and view copy make of the objects of
\* the program
Sliced ==
    {subvector(Cur, Param, p[1], p[2], p[3], p[4]) :
        p \in {p \in Handles \X (0..MaxLen) \X (0..MaxLen) \X (1..MaxStride) :
                  /\ IsObject(p[1]) /\ Is1D(handles[p[1]])
                  /\ SubvectorOk(handles[p[1]], p[2], p[3], p[4])}}
    \cup {submatrix(Cur, Param, p[1], p[2], p[3], p[4], p[5]) :
        p \in {p \in Grids \X (0..MaxDim) \X (0..MaxDim)
                          \X (0..MaxDim) \X (0..MaxDim) :
                  SubmatrixOk(handles[p[1]], p[2], p[3], p[4], p[5])}}
    \cup {row(Cur, Param, g, 0) : g \in Grids}
    \cup {row(Cur, Param, g, handles[g].m - 1) : g \in Grids}
    \cup {column(Cur, Param, g, 0) : g \in Grids}
    \cup {column(Cur, Param, g, handles[g].n - 1) : g \in Grids}
    \cup {convert_construct(Cur, Param, g) : g \in Owners}
    \cup {copy_construct(Cur, Param, g) : g \in Views}

\* C29: in every state, for every object h whose storage is allocated, every
\* index (i, j) in range and every value, the write h(i, j) = value leaves
\* all objects and control blocks as they are, stores the value in the
\* element of h's buffer that is mapped(i, j) elements after data() (i for a
\* vector, offset + i * stride for a vectorview, i + j * m for a matrix,
\* offset + i + j * ldim for a matrixview), and changes no other element of
\* this or any other allocation.  A subvector, submatrix, row, column, a
\* view converted from a vector or matrix and a copy of a view leave every
\* allocation, all its elements included, as it is.
C29_WriteFrame ==
    /\ \A h \in Handles :
          (IsObject(h) /\ Valid(Cur, handles[h])) =>
             \A x \in Idx(handles[h]), value \in Scalars :
                LET T == Set(Cur, handles[h], x, value)
                    a == DataPtr(Cur, handles[h])[1]
                    k == DataPtr(Cur, handles[h])[2] + Mapped(handles[h], x[1], x[2])
                IN /\ T.h = handles /\ T.c = ctrl
                   /\ k >= 0 /\ k < Len(heap[a].cells)
                   /\ T.m[a].cells[k + 1] = value
                   /\ T.m[a].state = "live"
                   /\ \A b \in Allocs :
                         /\ T.m[b].state = heap[b].state
                         /\ Len(T.m[b].cells) = Len(heap[b].cells)
                         /\ \A l \in 1..Len(heap[b].cells) :
                               <<b, l>> # <<a, k + 1>> =>
                                  T.m[b].cells[l] = heap[b].cells[l]
    /\ HasCtrl => \A T \in Sliced : T.m = heap

\* a view of stride 2 that starts at the second element of a buffer of four
\* elements, all 0: the write of 1 at its index 1 changes the fourth element
\* of the buffer and no other
C29_Witness ==
    \E h \in OfKind("vectorview") :
       /\ handles[h].n = 2 /\ handles[h].stride = 2
       /\ Valid(Cur, handles[h])
       /\ DataPtr(Cur, handles[h])[2] + handles[h].offset = 1
       /\ heap[DataPtr(Cur, handles[h])[1]].cells = <<0, 0, 0, 0>>
       /\ Set(Cur, handles[h], <<1, 0>>, 1).m[DataPtr(Cur, handles[h])[1]].cells
             = <<0, 0, 0, 1>>

----------------------------------------------------------------------------
(* C30 *)

\* a write through either of hd and gd is not seen through the other: they
\* have no storage cell in common, and every element of the one is what it
\* was after every write to the other
Apart(S, hd, gd) ==
    /\ Disjoint(S, hd, gd)
    /\ \A x \in Idx(hd), y \in Idx(gd), value \in Scalars :
          /\ At(Set(S, hd, x, value), gd, y) = At(S, gd, y)
          /\ At(Set(S, gd, y, value), hd, x) = At(S, hd, x)

\* the ranges [r[1], r[2]) and [q[1], q[2]) have no index in common
NoOverlap(r, q) == r[2] <= q[1] \/ q[2] <= r[1]

Ranges(n) == {r \in (0..n) \X (0..n) : r[1] < r[2]}

\* C30: in every state, distinct indices in range of one object map to
\* distinct storage cells; and for every matrix or matrixview G whose
\* storage is allocated, in a program that can declare another object: two
\* submatrices of G whose row ranges or whose column ranges have no index
\* in common, two different rows of G, and two different columns of G,
\* have no storage cell in common, and no write through one changes an
\* element of the other.
C30_NoAliasing ==
    /\ \A h \in Handles : IsObject(h) =>
          \A x \in Idx(handles[h]), y \in Idx(handles[h]) :
             x # y => Cell(Cur, handles[h], x[1], x[2])
                         # Cell(Cur, handles[h], y[1], y[2])
    /\ \A G \in Grids :
          (Valid(Cur, handles[G]) /\ HasSlot) =>
             LET o == NewSlot(Cur)
                 m == handles[G].m
                 n == handles[G].n
             IN /\ \A r1 \in Ranges(m), r2 \in Ranges(m) :
                   \A c1 \in Ranges(n), c2 \in Ranges(n) :
                      (NoOverlap(r1, r2) \/ NoOverlap(c1, c2)) =>
                         LET S1 == submatrix(Cur, o, G, r1[1], r1[2], c1[1], c1[2])
                             S2 == submatrix(S1, Param, G, r2[1], r2[2], c2[1], c2[2])
                         IN Apart(S2, S2.h[o], S2.h[Param])
                /\ \A i1 \in 0..(m - 1), i2 \in 0..(m - 1) :
                      i1 # i2 =>
                         LET S2 == row(row(Cur, o, G, i1), Param, G, i2)
                         IN Apart(S2, S2.h[o], S2.h[Param])
                /\ \A j1 \in 0..(n - 1), j2 \in 0..(n - 1) :
                      j1 # j2 =>
                         LET S2 == column(column(Cur, o, G, j1), Param, G, j2)
                         IN Apart(S2, S2.h[o], S2.h[Param])

\* a matrix of 2 rows and 2 columns, all 0, in a program that can declare
\* another object: a write of 1 through row 0 at index 1 is read as G(0, 1)
\* and leaves row 1 all 0; likewise through column 0 and column 1
C30_Witness ==
    \E G \in OfKind("matrix") :
       /\ Extents(handles[G]) = <<2, 2>>
       /\ Valid(Cur, handles[G]) /\ HasSlot
       /\ \A x \in Idx(handles[G]) : At(Cur, handles[G], x) = 0
       /\ LET S2 == row(row(Cur, NewSlot(Cur), G, 0), Param, G, 1)
              T == Set(S2, S2.h[NewSlot(Cur)], <<1, 0>>, 1)
          IN /\ At(T, T.h[G], <<0, 1>>) = 1
             /\ \A y \in Idx(T.h[Param]) : At(T, T.h[Param], y) = 0
       /\ LET S2 == column(column(Cur, NewSlot(Cur), G, 0), Param, G, 1)
              T == Set(S2, S2.h[Param], <<1, 0>>, 1)
          IN /\ At(T, T.h[G], <<1, 1>>) = 1
             /\ \A y \in Idx(T.h[NewSlot(Cur)]) : At(T, T.h[NewSlot(Cur)], y) = 0

====
